---- MODULE Spec2Model ----
(***************************************************************************)
(* Billiards physics engine (PhysicsEngine: calculateCueImpact, update,    *)
(* resolveCollision, predict) and the shot lifecycle that drives it.       *)
(*                                                                         *)
(* Numbers.  The program computes in IEEE doubles.  The model computes in  *)
(* fixed point: every length, velocity, spin and factor is an integer      *)
(* count of 1/Scale (0.001) units, every product and quotient is rounded   *)
(* to the nearest unit exactly where the program rounds a double, and the  *)
(* operations are applied in the program's order.  Masses are whole        *)
(* numbers.  Formulas that compare computed quantities allow the named     *)
(* tolerances PosTol / VelTol for that rounding.                           *)
(***************************************************************************)
EXTENDS Integers, Sequences, FiniteSets, TLC

Scale == 10 ^ 3

(* ---------------- constants.ts ---------------- *)
TABLE_WIDTH == 800
TABLE_HEIGHT == 400
BALL_RADIUS == 12
FRICTION == 988
SPIN_FRICTION == 970
WALL_BOUNCE == 750
BALL_BOUNCE == 960
MIN_VELOCITY == 150
MAX_POWER == 35
SIDE_SPIN_CUSHION_FACTOR == 400
TOP_SPIN_FOLLOW_FACTOR == 350

(* literals of physicsEngine.ts *)
SQUIRT_FACTOR == 120
EFFICIENCY_LOSS == 150
SPIN_TRANSFER_RATIO == 550
SPIN_PUSH == 15
FOLLOW_HALF == 500
SPIN_THRESHOLD == 50
INTENSITY_DIV == 8
TRACE_CAP == 20

TableW == TABLE_WIDTH * Scale
TableH == TABLE_HEIGHT * Scale
Radius == BALL_RADIUS * Scale

(* ---------------- number arithmetic ---------------- *)
Abs(n) == IF n < 0 THEN -n ELSE n
Max(a, b) == IF a >= b THEN a ELSE b
Min(a, b) == IF a <= b THEN a ELSE b

\* n / d rounded to the nearest integer (ties away from zero), d > 0
RoundDiv(n, d) == IF n >= 0 THEN (n + d \div 2) \div d ELSE -((-n + d \div 2) \div d)

\* a * b of two fixed-point numbers; the product is split so that no
\* intermediate exceeds the 32-bit integers of the checker
FMul(a, b) ==
  LET aa == Abs(a)
      bb == Abs(b)
      m == (aa \div Scale) * bb + ((aa % Scale) * bb + Scale \div 2) \div Scale
  IN IF (a < 0) # (b < 0) THEN -m ELSE m

\* a / b of two fixed-point numbers, b > 0
FDiv(a, b) == RoundDiv(a * Scale, b)

RECURSIVE SqrtSearch(_, _, _)
SqrtSearch(n, lo, hi) ==
  IF hi - lo <= 1 THEN lo
  ELSE LET mid == (lo + hi) \div 2
       IN IF mid * mid <= n THEN SqrtSearch(n, mid, hi) ELSE SqrtSearch(n, lo, mid)

\* Math.sqrt on an integer, rounded to the nearest integer
Sqrt(n) ==
  LET r == SqrtSearch(n, 0, 46341)
  IN IF n - r * r > r THEN r + 1 ELSE r

(* ---------------- vectorUtils.ts ---------------- *)
Vec(a, b) == [x |-> a, y |-> b]
ZeroVec == Vec(0, 0)

vecAdd(v1, v2) == Vec(v1.x + v2.x, v1.y + v2.y)
vecSub(v1, v2) == Vec(v1.x - v2.x, v1.y - v2.y)
vecMul(v, s) == Vec(FMul(v.x, s), FMul(v.y, s))
vecDiv(v, s) == Vec(FDiv(v.x, s), FDiv(v.y, s))

\* sqrt(x*x + y*y); long vectors are measured in coarser units (4 or 32
\* fixed-point units) so that the squares stay within 32 bits
vecMag(v) ==
  LET big == Max(Abs(v.x), Abs(v.y))
      k == IF big < 32768 THEN 1 ELSE IF big < 131072 THEN 4 ELSE 32
      cx == RoundDiv(v.x, k)
      cy == RoundDiv(v.y, k)
  IN k * Sqrt(cx * cx + cy * cy)

\* variant: the zero vector is normalised to (1, 0)
DivByMagDefaultX(v, m) == IF m = 0 THEN Vec(Scale, 0) ELSE vecDiv(v, m)

\* v divided by its magnitude m, and (0, 0) for the zero vector
DivByMag(v, m) == IF m = 0 THEN ZeroVec ELSE vecDiv(v, m)

vecNormalize(v) == DivByMag(v, vecMag(v))

vecDot(v1, v2) == FMul(v1.x, v2.x) + FMul(v1.y, v2.y)
vecDist(v1, v2) == vecMag(vecSub(v1, v2))

(* ---------------- PhysicsEngine.calculateCueImpact ---------------- *)
\* Math.cos / Math.sin of a small angle a (fixed-point radians, |a| <= 0.12),
\* by their Taylor polynomials, exact to the fixed-point unit
CosSmall(a) ==
  LET a2 == FMul(a, a)
  IN Scale - RoundDiv(a2, 2) + RoundDiv(FMul(a2, a2), 24)

SinSmall(a) ==
  LET a2 == FMul(a, a)
  IN a - RoundDiv(FMul(a2, a), 6)

\* (cos, sin) of atan2(direction.y, direction.x): the unit vector of direction,
\* and (1, 0) for the zero vector since atan2(0, 0) = 0
AngleDir(direction) ==
  LET u == vecNormalize(direction)
  IN IF u = ZeroVec THEN Vec(Scale, 0) ELSE u

\* variant: the loss grows with the square of the offset distance
VelocityEfficiencySquared(offCenterDist) ==
  Scale - FMul(FMul(offCenterDist, offCenterDist), EFFICIENCY_LOSS)

\* velocityEfficiency (line 38)
VelocityEfficiency(offCenterDist) == Scale - FMul(offCenterDist, EFFICIENCY_LOSS)

\* variant: topSpin takes the sign of spinOffset.y
TopSpinOfSameSign(offsetY, power) == FMul(FMul(offsetY, power), SPIN_TRANSFER_RATIO)

\* topSpin (line 44)
TopSpinOf(offsetY, power) == FMul(FMul(-offsetY, power), SPIN_TRANSFER_RATIO)

calculateCueImpact(direction, power, spinOffset) ==
  LET angleOffset == FMul(-spinOffset.x, SQUIRT_FACTOR)
      u == AngleDir(direction)
      c == CosSmall(angleOffset)
      s == SinSmall(angleOffset)
      \* cos(currentAngle + angleOffset), sin(currentAngle + angleOffset)
      adjustedDirection == Vec(FMul(u.x, c) - FMul(u.y, s), FMul(u.x, s) + FMul(u.y, c))
      offCenterDist == vecMag(spinOffset)
      velocityEfficiency == VelocityEfficiency(offCenterDist)
      launchPower == FMul(power, velocityEfficiency)
  IN [velocity |-> vecMul(adjustedDirection, launchPower),
      sideSpin |-> FMul(FMul(spinOffset.x, power), SPIN_TRANSFER_RATIO),
      topSpin |-> TopSpinOf(spinOffset.y, power)]

(* ---------------- PhysicsEngine.resolveCollision ---------------- *)
\* the follow/draw velocity added to b1 (lines 165-175)
FollowForce(collisionNorm, topSpin, speed) ==
  vecMul(collisionNorm,
         FMul(FMul(FMul(-topSpin, speed), TOP_SPIN_FOLLOW_FACTOR), FOLLOW_HALF))

\* b1's velocity after the impulse and the follow/draw coupling
ResolveVel1(b1, v1_post, collisionNorm, speed) ==
  IF Abs(b1.topSpin) > SPIN_THRESHOLD
  THEN vecAdd(v1_post, FollowForce(collisionNorm, b1.topSpin, speed))
  ELSE v1_post

\* the positional correction (lines 179-184): the pair <<b1.pos, b2.pos>>
Correct(p1, p2, r1, r2, collisionNorm) ==
  LET overlap == (r1 + r2) - vecDist(p1, p2)
      correction == vecMul(collisionNorm, RoundDiv(overlap, 2))
  IN IF overlap > 0
     THEN <<vecSub(p1, correction), vecAdd(p2, correction)>>
     ELSE <<p1, p2>>

\* variant: the impulse is not divided by the sum of the masses
ImpulseNoMassSum(speed, m1, m2) == FMul(2 * speed, BALL_BOUNCE)

\* variant: the impulse is not scaled by the restitution
ImpulseFullRestitution(speed, m1, m2) == RoundDiv(2 * speed, m1 + m2)

\* the impulse per unit mass (line 160)
Impulse(speed, m1, m2) == FMul(RoundDiv(2 * speed, m1 + m2), BALL_BOUNCE)

\* variant: the impulse is applied to both balls without the other ball's mass
resolveCollisionNoMass(b1, b2) ==
  LET collisionNorm == vecNormalize(vecSub(b2.pos, b1.pos))
      relativeVel == vecSub(b1.vel, b2.vel)
      speed == vecDot(relativeVel, collisionNorm)
      impulse == Impulse(speed, b1.mass, b2.mass)
      v1_post == vecSub(b1.vel, vecMul(collisionNorm, impulse))
      v2_post == vecAdd(b2.vel, vecMul(collisionNorm, impulse))
      newPos == Correct(b1.pos, b2.pos, b1.radius, b2.radius, collisionNorm)
  IN IF speed < 0 THEN <<b1, b2>>
     ELSE <<[b1 EXCEPT !.vel = ResolveVel1(b1, v1_post, collisionNorm, speed),
                       !.pos = newPos[1]],
            [b2 EXCEPT !.vel = v2_post, !.pos = newPos[2]]>>

\* resolveCollision(b1, b2): the pair <<b1, b2>> as the call leaves them
resolveCollision(b1, b2) ==
  LET collisionNorm == vecNormalize(vecSub(b2.pos, b1.pos))
      relativeVel == vecSub(b1.vel, b2.vel)
      speed == vecDot(relativeVel, collisionNorm)
      impulse == Impulse(speed, b1.mass, b2.mass)
      v1_post == vecSub(b1.vel, vecMul(collisionNorm, impulse * b2.mass))
      v2_post == vecAdd(b2.vel, vecMul(collisionNorm, impulse * b1.mass))
      newPos == Correct(b1.pos, b2.pos, b1.radius, b2.radius, collisionNorm)
  IN IF speed < 0 THEN <<b1, b2>>
     ELSE <<[b1 EXCEPT !.vel = ResolveVel1(b1, v1_post, collisionNorm, speed),
                       !.pos = newPos[1]],
            [b2 EXCEPT !.vel = v2_post, !.pos = newPos[2]]>>

(* ---------------- PhysicsEngine.update ---------------- *)
\* variant: the trace is never shifted
PushTraceNoShift(trace, pos) == Append(trace, pos)

\* ball.trace.push(pos); if (length > 20) shift()
PushTrace(trace, pos) ==
  LET t == Append(trace, pos)
  IN IF Len(t) > TRACE_CAP THEN Tail(t) ELSE t

\* the branch test of the per-ball loop (line 60)
IsMovingBall(ball) == vecMag(ball.vel) > MIN_VELOCITY

\* variant: the rest branch zeroes the velocity and keeps the spins
RestBallKeepSpin(ball) == [ball EXCEPT !.vel = ZeroVec]

\* the rest branch (lines 117-121)
RestBall(ball) == [ball EXCEPT !.vel = ZeroVec, !.topSpin = 0, !.sideSpin = 0]

\* ball.vel after the spin push (lines 63-66)
SpinPushed(ball) ==
  vecAdd(ball.vel, vecMul(vecNormalize(ball.vel), FMul(ball.topSpin, SPIN_PUSH)))

\* variant: no friction on the velocity
AdvanceNoFriction(ball, vel0) ==
  [ball |-> [ball EXCEPT !.pos = vecAdd(ball.pos, vel0),
                         !.vel = vel0,
                         !.topSpin = FMul(ball.topSpin, SPIN_FRICTION),
                         !.sideSpin = FMul(ball.sideSpin, SPIN_FRICTION),
                         !.trace = PushTrace(ball.trace, vecAdd(ball.pos, vel0))],
   hitWall |-> FALSE, wallIntensity |-> 0, collisionPos |-> vecAdd(ball.pos, vel0)]

\* position, friction, spin decay and trace (lines 68-75); vel0 is the pushed
\* velocity; the ball with no wall hit recorded yet (lines 77-79)
Advance(ball, vel0) ==
  [ball |-> [ball EXCEPT !.pos = vecAdd(ball.pos, vel0),
                         !.vel = vecMul(vel0, FRICTION),
                         !.topSpin = FMul(ball.topSpin, SPIN_FRICTION),
                         !.sideSpin = FMul(ball.sideSpin, SPIN_FRICTION),
                         !.trace = PushTrace(ball.trace, vecAdd(ball.pos, vel0))],
   hitWall |-> FALSE, wallIntensity |-> 0, collisionPos |-> vecAdd(ball.pos, vel0)]

\* the left and right cushions (lines 82-96); vx is the reflected vel.x
BounceX(c, px, vx, sign, wallX) ==
  [ball |-> [c.ball EXCEPT
               !.pos = Vec(px, c.ball.pos.y),
               !.vel = Vec(vx, c.ball.vel.y
                                 + sign * FMul(FMul(c.ball.sideSpin, Abs(vx)),
                                               SIDE_SPIN_CUSHION_FACTOR))],
   hitWall |-> TRUE, wallIntensity |-> Abs(c.ball.vel.x),
   collisionPos |-> Vec(wallX, c.collisionPos.y)]

CushionX(c) ==
  IF c.ball.pos.x - c.ball.radius < 0
  THEN BounceX(c, c.ball.radius, FMul(c.ball.vel.x, -WALL_BOUNCE), 1, 0)
  ELSE IF c.ball.pos.x + c.ball.radius > TableW
  THEN BounceX(c, TableW - c.ball.radius, FMul(c.ball.vel.x, -WALL_BOUNCE), -1, TableW)
  ELSE c

\* the top and bottom cushions (lines 98-112); vy is the reflected vel.y
BounceY(c, py, vy, sign, wallY) ==
  [ball |-> [c.ball EXCEPT
               !.pos = Vec(c.ball.pos.x, py),
               !.vel = Vec(c.ball.vel.x
                             + sign * FMul(FMul(c.ball.sideSpin, Abs(vy)),
                                           SIDE_SPIN_CUSHION_FACTOR),
                           vy)],
   hitWall |-> TRUE, wallIntensity |-> Max(c.wallIntensity, Abs(c.ball.vel.y)),
   collisionPos |-> Vec(c.collisionPos.x, wallY)]

CushionY(c) ==
  IF c.ball.pos.y - c.ball.radius < 0
  THEN BounceY(c, c.ball.radius, FMul(c.ball.vel.y, -WALL_BOUNCE), -1, 0)
  ELSE IF c.ball.pos.y + c.ball.radius > TableH
  THEN BounceY(c, TableH - c.ball.radius, FMul(c.ball.vel.y, -WALL_BOUNCE), 1, TableH)
  ELSE c

\* the wall event of the ball, if it hit a cushion (lines 114-116)
WallEvents(c) ==
  IF c.hitWall
  THEN <<[type |-> "wall", intensity |-> RoundDiv(c.wallIntensity, INTENSITY_DIV),
          pos |-> c.collisionPos, ballIds |-> <<>>]>>
  ELSE <<>>

\* the moving branch (lines 61-116): the ball after spin push, integration,
\* friction, trace and cushion handling
MoveBall(ball) == CushionY(CushionX(Advance(ball, SpinPushed(ball))))

\* the result of the per-ball loop before its first ball
NoneIntegrated == [balls |-> <<>>, isMoving |-> FALSE, events |-> <<>>]

\* the moving branch taken: c is the ball moved, with its wall hit
Moved(acc, c) ==
  [balls |-> Append(acc.balls, c.ball), isMoving |-> TRUE,
   events |-> acc.events \o WallEvents(c)]

\* one round of balls.forEach (lines 59-121)
IntegrateBall(acc, ball) ==
  IF IsMovingBall(ball)
  THEN Moved(acc, MoveBall(ball))
  ELSE [acc EXCEPT !.balls = Append(acc.balls, RestBall(ball))]

\* balls.forEach (lines 58-122), ball k onwards
RECURSIVE IntegrateFrom(_, _, _)
IntegrateFrom(bs, k, acc) ==
  IF k > Len(bs) THEN acc
  ELSE IntegrateFrom(bs, k + 1, IntegrateBall(acc, bs[k]))

\* the collision test of the pair scan (lines 128-135)
PairSpeed(b1, b2) ==
  vecDot(vecSub(b1.vel, b2.vel), vecNormalize(vecSub(b2.pos, b1.pos)))

PairOverlaps(b1, b2) == vecDist(b1.pos, b2.pos) < b1.radius + b2.radius

\* variant: every overlapping pair collides, whatever its relative velocity
PairCollidesAnySpeed(b1, b2) == PairOverlaps(b1, b2)

PairCollides(b1, b2) == PairOverlaps(b1, b2) /\ PairSpeed(b1, b2) > 0

BallEvent(b1, b2) ==
  LET collisionNorm == vecNormalize(vecSub(b2.pos, b1.pos))
  IN [type |-> "ball", intensity |-> RoundDiv(PairSpeed(b1, b2), INTENSITY_DIV),
      pos |-> vecAdd(b1.pos, vecMul(collisionNorm, b1.radius)),
      ballIds |-> <<b1.id, b2.id>>]

\* the pair after (i, j) in the scan order of the two nested loops
NextPair(i, j, n) == IF j < n THEN <<i, j + 1>> ELSE <<i + 1, i + 2>>

\* the pair scan (lines 124-148) from pair (i, j) onwards
\* hits records, for each pair resolved, the two balls as the scan found them
RECURSIVE ScanFrom(_, _, _, _, _, _)
ScanFrom(bs, i, j, collisions, events, hits) ==
  IF i >= Len(bs)
  THEN [balls |-> bs, collisions |-> collisions, events |-> events, hits |-> hits]
  ELSE LET nx == NextPair(i, j, Len(bs))
       IN IF PairCollides(bs[i], bs[j])
          THEN LET res == resolveCollision(bs[i], bs[j])
               IN ScanFrom([bs EXCEPT ![i] = res[1], ![j] = res[2]], nx[1], nx[2],
                           collisions \cup {<<bs[i].id, bs[j].id>>},
                           Append(events, BallEvent(bs[i], bs[j])),
                           Append(hits, [b1 |-> bs[i], b2 |-> bs[j]]))
          ELSE ScanFrom(bs, nx[1], nx[2], collisions, events, hits)

\* the return value (line 150)
UpdateResult(isMoving, scan) ==
  [balls |-> scan.balls, isMoving |-> isMoving,
   collisions |-> scan.collisions, events |-> scan.events, hits |-> scan.hits]

\* the pair scan over the balls the per-ball loop left
ScanAfter(integ) ==
  UpdateResult(integ.isMoving, ScanFrom(integ.balls, 1, 2, {}, integ.events, <<>>))

\* PhysicsEngine.update(balls)
update(bs) == ScanAfter(IntegrateFrom(bs, 1, NoneIntegrated))

(* ---------------- PhysicsEngine.predict ---------------- *)
PREDICT_STEPS == 400
TARGET_STEPS == 60
DEFLECT_STEPS == 150
PATH_STRIDE == 10
CURVE_FACTOR == 80
RAD_TO_DEG == 57296
HALF_PI == 1571
NaN == -1
GHOST_BACKOFF == 200

\* Math.cos on [0, pi/2], by its Taylor polynomial in Horner form
CosPoly(a) ==
  LET a2 == FMul(a, a)
      t4 == Scale - RoundDiv(a2, 56)
      t3 == Scale - FMul(RoundDiv(a2, 30), t4)
      t2 == Scale - FMul(RoundDiv(a2, 12), t3)
  IN Scale - FMul(RoundDiv(a2, 2), t2)

RECURSIVE AcosSearch(_, _, _)
AcosSearch(t, lo, hi) ==
  IF lo >= hi THEN lo
  ELSE LET mid == (lo + hi) \div 2
       IN IF CosPoly(mid) <= t THEN AcosSearch(t, lo, mid) ELSE AcosSearch(t, mid + 1, hi)

\* Math.acos(t) * (180 / Math.PI) for t >= 0; acos of a number above 1 is NaN
AcosDeg(t) == IF t > Scale THEN NaN ELSE FMul(AcosSearch(t, 0, HALF_PI), RAD_TO_DEG)

\* variant: the main loop has no step cap
MainLoopGuardNoCap(i) == i >= 0

\* the loop conditions of the three for loops
MainLoopGuard(i) == i < PREDICT_STEPS
TargetLoopGuard(j) == j < TARGET_STEPS
DeflectLoopGuard(k) == k < DEFLECT_STEPS

\* the locals before the call; mainIters, targetIters and deflectIters count the
\* executions of the three loop bodies
PredictIdle ==
  [pc |-> "idle", i |-> 0, j |-> 0, k |-> 0, cueMass |-> 0,
   mainIters |-> 0, targetIters |-> 0, deflectIters |-> 0,
   simPos |-> ZeroVec, simVel |-> ZeroVec, simSide |-> 0, simTop |-> 0,
   path |-> <<>>, target |-> "", contactStep |-> 0, collisionNorm |-> ZeroVec,
   ghost |-> ZeroVec, thickness |-> 0, targetPath |-> <<>>,
   tPos |-> ZeroVec, tVel |-> ZeroVec,
   deflectedPos |-> ZeroVec, deflectedVel |-> ZeroVec, result |-> <<>>]

\* App.executeShot: the cue ball with the impact assigned (lines 58-63)
AssignImpact(b, impact) ==
  [b EXCEPT !.vel = impact.velocity, !.sideSpin = impact.sideSpin, !.topSpin = impact.topSpin]

\* variant: predict assigns the impact to the live cue ball
PredictInitLive(cueBall, otherBalls, direction, power, spinOffset) ==
  LET impact == calculateCueImpact(direction, power, spinOffset)
  IN [locals |-> [PredictIdle EXCEPT !.pc = "main", !.cueMass = cueBall.mass,
                                     !.path = <<cueBall.pos>>,
                                     !.simPos = cueBall.pos,
                                     !.simVel = impact.velocity,
                                     !.simSide = impact.sideSpin,
                                     !.simTop = impact.topSpin],
      cueBall |-> AssignImpact(cueBall, impact),
      otherBalls |-> otherBalls]

\* lines 194-199: the locals at loop entry, and the argument balls as these
\* statements leave them (cue first, then otherBalls)
PredictInit(cueBall, otherBalls, direction, power, spinOffset) ==
  LET impact == calculateCueImpact(direction, power, spinOffset)
  IN [locals |-> [PredictIdle EXCEPT !.pc = "main", !.cueMass = cueBall.mass,
                                     !.path = <<cueBall.pos>>,
                                     !.simPos = cueBall.pos,
                                     !.simVel = impact.velocity,
                                     !.simSide = impact.sideSpin,
                                     !.simTop = impact.topSpin],
      cueBall |-> cueBall,
      otherBalls |-> otherBalls]

\* variant: contact is detected at one ball radius
FirstContactOneRadius(simPos, otherBalls) ==
  LET near == {n \in 1..Len(otherBalls) :
                 vecDist(simPos, otherBalls[n].pos) < BALL_RADIUS * Scale}
  IN IF near = {} THEN 0 ELSE CHOOSE n \in near : \A m \in near : n <= m

\* index of the first ball of otherBalls within two radii of simPos, or 0
FirstContact(simPos, otherBalls) ==
  LET near == {n \in 1..Len(otherBalls) :
                 vecDist(simPos, otherBalls[n].pos) < BALL_RADIUS * 2 * Scale}
  IN IF near = {} THEN 0 ELSE CHOOSE n \in near : \A m \in near : n <= m

\* ghost (lines 223 and 231): two radii from the struck ball, against the
\* collision normal
GhostBall(otherPos, simPos) ==
  vecSub(otherPos, vecMul(vecNormalize(vecSub(otherPos, simPos)), BALL_RADIUS * 2 * Scale))

\* ghost of the second PhysicsEngine of the repository (line 499): a fifth of a
\* radius behind the simulated cue ball
GhostBallSecond(simPos, simVel) ==
  vecSub(simPos, vecMul(vecNormalize(simVel), FMul(BALL_RADIUS * Scale, GHOST_BACKOFF)))

\* the result object of the contact exit (lines 262-268)
ContactResult(p) ==
  [path |-> p.path, ghostBall |-> p.ghost, targetPath |-> p.targetPath,
   thickness |-> p.thickness, angle |-> AcosDeg(p.thickness)]

\* the result object of the fall-through (line 276)
PathResult(p) == [path |-> p.path]

\* the factor of collisionNorm in targetVel and deflectedVel (lines 236 and 247)
PredictKick(speed, cueMass, otherMass) ==
  FMul(RoundDiv(2 * speed, cueMass + otherMass), BALL_BOUNCE)

\* targetVel (line 236)
TargetVel(collisionNorm, speed, cueMass, otherMass) ==
  vecMul(collisionNorm, PredictKick(speed, cueMass, otherMass))

\* deflectedVel before the curve loop (line 247)
DeflectedVel(simVel, collisionNorm, speed, cueMass, otherMass) ==
  vecSub(simVel, vecMul(collisionNorm, PredictKick(speed, cueMass, otherMass)))

\* one iteration of the main loop (lines 202-273) and the loop test after it
PredictMain(p, otherBalls) ==
  LET pos == vecAdd(p.simPos, p.simVel)
      vel0 == vecMul(p.simVel, FRICTION)
      side == FMul(p.simSide, SPIN_FRICTION)
      top == FMul(p.simTop, SPIN_FRICTION)
      xOut == pos.x < Radius \/ pos.x > TableW - Radius
      vx1 == IF xOut THEN FMul(vel0.x, -WALL_BOUNCE) ELSE vel0.x
      swY == FMul(FMul(side, Abs(vx1)), SIDE_SPIN_CUSHION_FACTOR)
      vy1 == IF ~xOut THEN vel0.y
             ELSE IF pos.x < Radius THEN vel0.y + swY ELSE vel0.y - swY
      path1 == IF xOut THEN Append(p.path, pos) ELSE p.path
      yOut == pos.y < Radius \/ pos.y > TableH - Radius
      vy2 == IF yOut THEN FMul(vy1, -WALL_BOUNCE) ELSE vy1
      swX == FMul(FMul(side, Abs(vy2)), SIDE_SPIN_CUSHION_FACTOR)
      vx2 == IF ~yOut THEN vx1
             ELSE IF pos.y < Radius THEN vx1 - swX ELSE vx1 + swX
      path2 == IF yOut THEN Append(path1, pos) ELSE path1
      vel == Vec(vx2, vy2)
      n == FirstContact(pos, otherBalls)
      moved == [p EXCEPT !.simPos = pos, !.simVel = vel, !.simSide = side, !.simTop = top,
                         !.mainIters = p.mainIters + 1]
  IN IF n # 0
     THEN LET other == otherBalls[n]
              collisionNorm == vecNormalize(vecSub(other.pos, pos))
              speed == vecDot(vel, collisionNorm)
              c == [moved EXCEPT
                      !.path = path2, !.target = other.id, !.contactStep = p.i + 1,
                      !.collisionNorm = collisionNorm,
                      !.thickness = Abs(vecDot(vecNormalize(vel), collisionNorm)),
                      !.ghost = GhostBall(other.pos, pos),
                      !.targetPath = <<other.pos>>,
                      !.tPos = other.pos, !.tVel = TargetVel(collisionNorm, speed, p.cueMass, other.mass),
                      !.deflectedVel = DeflectedVel(vel, collisionNorm, speed,
                                                    p.cueMass, other.mass),
                      !.deflectedPos = pos, !.j = 0, !.k = 0]
          IN [c EXCEPT !.pc = IF speed > 0 THEN "target" ELSE "deflect"]
     ELSE LET path3 == IF p.i % PATH_STRIDE = 0 THEN Append(path2, pos) ELSE path2
              q == [moved EXCEPT !.path = path3]
          IN IF vecMag(vel) < MIN_VELOCITY
             THEN [q EXCEPT !.pc = "done", !.result = PathResult(q)]
             ELSE IF MainLoopGuard(p.i + 1)
             THEN [q EXCEPT !.i = p.i + 1]
             ELSE [q EXCEPT !.i = p.i + 1, !.pc = "done", !.result = PathResult(q)]

\* one iteration of the target-path loop (lines 239-243) and its loop test
PredictTarget(p) ==
  LET tPos == vecAdd(p.tPos, p.tVel)
      q == [p EXCEPT !.tPos = tPos, !.tVel = vecMul(p.tVel, FRICTION),
                     !.targetPath = IF p.j % PATH_STRIDE = 0
                                    THEN Append(p.targetPath, tPos) ELSE p.targetPath,
                     !.j = p.j + 1, !.targetIters = p.targetIters + 1]
  IN IF TargetLoopGuard(p.j + 1) THEN q ELSE [q EXCEPT !.pc = "deflect"]

\* one iteration of the deflected-path loop (lines 250-260), its loop test,
\* and the return that follows the loop
PredictDeflect(p) ==
  LET curveStrength == FMul(FMul(p.simTop, CURVE_FACTOR), RoundDiv(p.k * Scale, DEFLECT_STEPS))
      vel0 == vecAdd(p.deflectedVel, vecMul(p.collisionNorm, -curveStrength))
      pos == vecAdd(p.deflectedPos, vel0)
      vel == vecMul(vel0, FRICTION)
      q == [p EXCEPT !.deflectedPos = pos, !.deflectedVel = vel,
                     !.deflectIters = p.deflectIters + 1,
                     !.path = IF p.k % PATH_STRIDE = 0 THEN Append(p.path, pos) ELSE p.path]
      r == IF vecMag(vel) < MIN_VELOCITY THEN q ELSE [q EXCEPT !.k = p.k + 1]
  IN IF vecMag(vel) < MIN_VELOCITY \/ ~DeflectLoopGuard(p.k + 1)
     THEN [r EXCEPT !.pc = "done", !.result = ContactResult(r)]
     ELSE r

(* ---------------- App / GameCanvas: one shot ---------------- *)
\* literals of App.tsx and GameCanvas.tsx
MIN_POWER == 2
START_POWER == 15
GUIDE_MIN_POWER == 10
MaxTicks == 450
NumShots == 8

\* getInitialBalls(GameMode.SAGU)
NewBall(id, px, py) ==
  [id |-> id, pos |-> Vec(px * Scale, py * Scale), vel |-> ZeroVec, radius |-> Radius,
   mass |-> 1, sideSpin |-> 0, topSpin |-> 0, trace |-> <<>>]

getInitialBalls ==
  <<NewBall("white", 200, 200), NewBall("yellow", 600, 200),
    NewBall("red1", 400, 150), NewBall("red2", 400, 250)>>

\* the aim (lastDirection, a unit vector), shotPower and spinOffset of the shots
\* examined: a straight full ball; a fast straight shot; a follow shot; a fast
\* cut into the far cushion; a shot missing every ball; a shot with side spin
\* into the near cushion; a soft and a hard draw shot; a plain shot into the near
\* cushion
Shots ==
  <<[dir |-> Vec(1000, 0), power |-> 15000, off |-> ZeroVec],
    [dir |-> Vec(1000, 0), power |-> 29000, off |-> ZeroVec],
    [dir |-> Vec(1000, 0), power |-> 15000, off |-> Vec(0, -500)],
    [dir |-> Vec(-891, 454), power |-> 35000, off |-> ZeroVec],
    [dir |-> Vec(995, 105), power |-> 35000, off |-> ZeroVec],
    [dir |-> Vec(0, 1000), power |-> 20000, off |-> Vec(500, 0)],
    [dir |-> Vec(1000, 0), power |-> 15000, off |-> Vec(0, 500)],
    [dir |-> Vec(1000, 0), power |-> 35000, off |-> Vec(0, 500)],
    [dir |-> Vec(0, 1000), power |-> 20000, off |-> ZeroVec]>>

\* lockDirection and currentMouse are GameCanvas state; guideCall and shotCall
\* record the arguments and the result of the last call of calculateCueImpact
\* made by predict (for the aim guide drawn) and by executeShot
\* gameState (without its phase, which is the variable phase), combo,
\* shotCollisions and cushionCount are App state; shotLog records, for the shot
\* in progress, the events that update returned and the outcomes that the
\* PROCESSING effect computed; pending, frame and effects are the state updates
\* requested and not yet rendered, the scheduled animation-frame callback (the
\* phase it closed over), and whether a committed render still has its effects
\* to run
VARIABLES balls, phase, lastDirection, shotPower, spinOffset, tick, lastUpdate,
          pred, realContact, rc, lockDirection, currentMouse, guideCall, shotCall,
          gameState, combo, shotCollisions, cushionCount, shotLog,
          pending, frame, effects

vars == <<balls, phase, lastDirection, shotPower, spinOffset, tick, lastUpdate,
          pred, realContact, rc, lockDirection, currentMouse, guideCall, shotCall,
          gameState, combo, shotCollisions, cushionCount, shotLog,
          pending, frame, effects>>

shotVars == <<lastDirection, shotPower, spinOffset>>

canvasVars == <<lockDirection, currentMouse>>

callVars == <<guideCall, shotCall>>

appVars == <<gameState, combo, shotCollisions, cushionCount>>

reactVars == <<pending, frame, effects>>

gameVars == <<appVars, shotLog, reactVars>>

\* gameState after startNewGame(mode, players)
NewGame(players) == [scores |-> <<0, 0>>, currentPlayer |-> 0, playerCount |-> players]

\* the record of a shot before it is taken
NoLog == [shots |-> 0, pairs |-> {}, walls |-> 0, outcomes |-> <<>>]

\* the record of the shot that executeShot starts
NextLog(log) == [shots |-> log.shots + 1, pairs |-> {}, walls |-> 0, outcomes |-> <<>>]

\* GameCanvas is not mounted: no animation-frame callback is scheduled
NoFrame == [phase |-> "SETUP", lag |-> 0]

\* the callback that GameCanvas schedules when rendered with phase ph
\* (useCallback and the requestAnimationFrame effect, GameCanvas lines 79-117);
\* lag counts the callbacks that ran while state updates or effects of earlier
\* ones were still waiting
FrameClosure(ph) == [phase |-> ph, lag |-> 0]

\* the scheduled callback after an input event has been handled and rendered
FrameAfter(old, ph) == IF old = NoFrame THEN NoFrame ELSE FrameClosure(ph)

\* App state after startNewGame(SAGU, players), nothing pending
GameStart(players) ==
  /\ gameState = NewGame(players)
  /\ combo = 0
  /\ shotCollisions = {}
  /\ cushionCount = 0
  /\ shotLog = NoLog
  /\ pending = <<>>
  /\ frame = NoFrame
  /\ effects = FALSE

\* useState<Vector2D | null>(null)
Null == [null |-> TRUE]

NoCall == [made |-> FALSE]

\* a call of calculateCueImpact with its arguments and its result
CallOf(direction, power, offset) ==
  [made |-> TRUE, direction |-> direction, power |-> power, spinOffset |-> offset,
   impact |-> calculateCueImpact(direction, power, offset)]

\* the cue ball of player 0 and the balls passed as otherBalls (GameCanvas draw)
CueId == "white"
CueIndex(bs) == CHOOSE n \in 1..Len(bs) : bs[n].id = CueId
OtherIndices(bs) == {n \in 1..Len(bs) : bs[n].id # CueId}

RECURSIVE FilterOthers(_, _)
FilterOthers(bs, k) ==
  IF k > Len(bs) THEN <<>>
  ELSE IF bs[k].id # CueId THEN <<bs[k]>> \o FilterOthers(bs, k + 1)
  ELSE FilterOthers(bs, k + 1)

\* the balls array with the cue ball and the other balls replaced by the
\* objects a call was handed (same order)
RECURSIVE PutBack(_, _, _, _)
PutBack(bs, k, cueBall, otherBalls) ==
  IF k > Len(bs) THEN <<>>
  ELSE IF bs[k].id = CueId
       THEN <<cueBall>> \o PutBack(bs, k + 1, cueBall, otherBalls)
       ELSE <<Head(otherBalls)>> \o PutBack(bs, k + 1, cueBall, Tail(otherBalls))

NoUpdate == [called |-> FALSE, isMoving |-> FALSE, collisions |-> {}, events |-> <<>>]
NoContact == [found |-> FALSE, step |-> 0, target |-> "", ghost |-> ZeroVec, thickness |-> 0]
RcOff == [pc |-> "off"]

Init ==
  /\ balls = getInitialBalls
  /\ phase = "SELECT_POWER"
  /\ \E n \in 1..NumShots :
       /\ lastDirection = Shots[n].dir
       /\ shotPower = Shots[n].power
       /\ spinOffset = Shots[n].off
  /\ tick = 0
  /\ lastUpdate = NoUpdate
  /\ pred = PredictIdle
  /\ realContact = NoContact
  /\ rc = RcOff
  /\ lockDirection = lastDirection
  /\ currentMouse = Null
  /\ guideCall = NoCall
  /\ shotCall = NoCall
  /\ GameStart(1)

\* the power handed to predict: Math.max(10, shotPower)
GuidePower(power) == Max(GUIDE_MIN_POWER * Scale, power)

\* GameCanvas draw: PhysicsEngine.predict(cueBall, others, direction,
\* Math.max(10, shotPower), spinOffset) -- entry of the call
PredictCall ==
  /\ phase = "SELECT_POWER"
  /\ pred.pc = "idle"
  /\ \E init \in {PredictInit(balls[CueIndex(balls)], FilterOthers(balls, 1),
                              lockDirection, GuidePower(shotPower), spinOffset)} :
        /\ pred' = init.locals
        /\ balls' = PutBack(balls, 1, init.cueBall, init.otherBalls)
  /\ guideCall' = CallOf(lockDirection, GuidePower(shotPower), spinOffset)
  /\ UNCHANGED <<phase, shotVars, tick, lastUpdate, realContact, rc, canvasVars, shotCall>>
  /\ UNCHANGED gameVars

PredictMainStep ==
  /\ pred.pc = "main"
  /\ pred' = PredictMain(pred, FilterOthers(balls, 1))
  /\ UNCHANGED <<balls, phase, shotVars, tick, lastUpdate, realContact, rc, canvasVars, callVars>>
  /\ UNCHANGED gameVars

PredictTargetStep ==
  /\ pred.pc = "target"
  /\ pred' = PredictTarget(pred)
  /\ UNCHANGED <<balls, phase, shotVars, tick, lastUpdate, realContact, rc, canvasVars, callVars>>
  /\ UNCHANGED gameVars

PredictDeflectStep ==
  /\ pred.pc = "deflect"
  /\ pred' = PredictDeflect(pred)
  /\ UNCHANGED <<balls, phase, shotVars, tick, lastUpdate, realContact, rc, canvasVars, callVars>>
  /\ UNCHANGED gameVars

\* App.executeShot (the aim guide of the frame has been drawn)
ExecuteShot ==
  /\ phase = "SELECT_POWER"
  /\ pred.pc = "done"
  /\ \E impact \in {calculateCueImpact(lastDirection, shotPower, spinOffset)} :
        balls' = [n \in 1..Len(balls) |->
                    IF balls[n].id = CueId THEN AssignImpact(balls[n], impact) ELSE balls[n]]
  /\ phase' = "MOVING"
  /\ shotCall' = CallOf(lastDirection, shotPower, spinOffset)
  /\ UNCHANGED <<shotVars, tick, lastUpdate, pred, realContact, rc, canvasVars, guideCall>>
  /\ shotLog' = NextLog(shotLog)
  /\ frame' = FrameAfter(frame, phase')
  /\ UNCHANGED <<appVars, pending, effects>>

\* the first ball event of a step that involves the cue ball, as the contact
\* the aim guide predicts: step, struck ball, ghost position and cut thickness
\* computed from the balls as the pair scan found them
ContactOf(t, hit) ==
  LET cue == IF hit.b1.id = CueId THEN hit.b1 ELSE hit.b2
      other == IF hit.b1.id = CueId THEN hit.b2 ELSE hit.b1
      collisionNorm == vecNormalize(vecSub(other.pos, cue.pos))
  IN [found |-> TRUE, step |-> t, target |-> other.id,
      ghost |-> vecSub(other.pos, vecMul(collisionNorm, BALL_RADIUS * 2 * Scale)),
      thickness |-> Abs(vecDot(vecNormalize(cue.vel), collisionNorm))]

CueHits(hits) == {n \in 1..Len(hits) : CueId \in {hits[n].b1.id, hits[n].b2.id}}

\* onCollisionOccurred for each event of a step, in order (App lines 182-185):
\* a ball event adds its ids to shotCollisions, a wall event adds 1 to
\* cushionCount
RECURSIVE CollectIds(_, _)
CollectIds(events, collected) ==
  IF events = <<>> THEN collected
  ELSE IF Head(events).type = "ball"
  THEN CollectIds(Tail(events), collected \cup {Head(events).ballIds[1], Head(events).ballIds[2]})
  ELSE CollectIds(Tail(events), collected)

RECURSIVE CountWalls(_, _)
CountWalls(events, count) ==
  IF events = <<>> THEN count
  ELSE IF Head(events).type = "wall"
  THEN CountWalls(Tail(events), count + 1)
  ELSE CountWalls(Tail(events), count)

\* the ballIds pairs of the ball events of a step, added to those recorded
RECURSIVE LogPairs(_, _)
LogPairs(events, pairs) ==
  IF events = <<>> THEN pairs
  ELSE IF Head(events).type = "ball"
  THEN LogPairs(Tail(events), pairs \cup {Head(events).ballIds})
  ELSE LogPairs(Tail(events), pairs)

\* GameCanvas.update while MOVING: PhysicsEngine.update(balls), onBallsUpdate,
\* and PROCESSING once nothing moved
Update ==
  /\ phase = "MOVING"
  /\ tick < MaxTicks
  /\ \E res \in {update(balls)} :
     LET ch == CueHits(res.hits)
     IN /\ balls' = res.balls
        /\ lastUpdate' = [called |-> TRUE, isMoving |-> res.isMoving,
                          collisions |-> res.collisions, events |-> res.events]
        /\ phase' = IF res.isMoving THEN "MOVING" ELSE "PROCESSING"
        /\ shotCollisions' = CollectIds(res.events, shotCollisions)
        /\ cushionCount' = CountWalls(res.events, cushionCount)
        /\ shotLog' = [shotLog EXCEPT !.pairs = LogPairs(res.events, @),
                                      !.walls = CountWalls(res.events, @)]
        /\ realContact' = IF realContact.found \/ ch = {} THEN realContact
                          ELSE ContactOf(tick + 1,
                                         res.hits[CHOOSE n \in ch : \A m \in ch : n <= m])
  /\ tick' = tick + 1
  /\ UNCHANGED <<shotVars, pred, rc, canvasVars, callVars, gameState, combo, reactVars>>

Next ==
  \/ PredictCall
  \/ PredictMainStep
  \/ PredictTargetStep
  \/ PredictDeflectStep
  \/ ExecuteShot
  \/ Update

Spec == Init /\ [][Next]_vars

\* a step in which the frame callback calls update: under Spec these are the
\* steps of Update, and one is possible exactly when Update is enabled
UpdateCalled == phase = "MOVING" /\ tick < MaxTicks /\ tick' = tick + 1

\* requestAnimationFrame runs the callback again after every frame (GameCanvas
\* line 111), so update keeps being called while the phase is MOVING
SpecRally == Spec /\ WF_tick(UpdateCalled)

(* ---------------- resolveCollision on its own ---------------- *)
MaxMass == 3

\* a striking ball just launched by calculateCueImpact, and a struck ball
\* overlapping it
ResolveDirs == {Vec(1000, 0), Vec(0, 1000), Vec(800, 600), Vec(-600, 800)}
ResolvePowers == {2000, 5000, 15000, 35000}
ResolveOffsets == {ZeroVec, Vec(500, 0), Vec(0, -1000), Vec(0, -500), Vec(0, 500), Vec(0, 1000), Vec(600, -800)}
ResolveGeometry == {Vec(20000, 0), Vec(0, 22000), Vec(14000, 14000), Vec(-12000, 16000)}
ResolveTargetVel == {ZeroVec, Vec(-3000, 1000)}

InitResolve ==
  /\ balls = getInitialBalls
  /\ phase = "MOVING"
  /\ lastDirection = Shots[1].dir
  /\ shotPower = Shots[1].power
  /\ spinOffset = Shots[1].off
  /\ tick = 0
  /\ lastUpdate = NoUpdate
  /\ pred = PredictIdle
  /\ realContact = NoContact
  /\ lockDirection = lastDirection
  /\ currentMouse = Null
  /\ guideCall = NoCall
  /\ shotCall = NoCall
  /\ GameStart(1)
  /\ \E d \in ResolveDirs, pw \in ResolvePowers, off \in ResolveOffsets,
        g \in ResolveGeometry, tv \in ResolveTargetVel, m1 \in 1..MaxMass, m2 \in 1..MaxMass :
       LET b1 == AssignImpact([NewBall("white", 200, 200) EXCEPT !.mass = m1],
                              calculateCueImpact(d, pw, off))
           b2 == [NewBall("red1", 200, 200) EXCEPT
                    !.pos = vecAdd(b1.pos, g), !.vel = tv, !.mass = m2]
       IN rc = [pc |-> "in", b1 |-> b1, b2 |-> b2, a1 |-> b1, a2 |-> b2]

\* one call of resolveCollision(b1, b2); a1 and a2 are the balls after it
Resolve ==
  /\ rc.pc = "in"
  /\ \E res \in {resolveCollision(rc.b1, rc.b2)} :
        rc' = [rc EXCEPT !.pc = "out", !.a1 = res[1], !.a2 = res[2]]
  /\ UNCHANGED <<balls, phase, shotVars, tick, lastUpdate, pred, realContact,
                 canvasVars, callVars>>
  /\ UNCHANGED gameVars

NextResolve == Resolve

SpecResolve == InitResolve /\ [][NextResolve]_vars

(* ---------------- the contact of predict beside resolveCollision ---------------- *)
\* the contact branch of PhysicsEngine.predict (lines 223-225, 236 and 247) for
\* the pair that resolveCollision was called on: simPos and simVel are b1's
\* position and velocity, other is b2
PredictContact ==
  /\ rc.pc = "out"
  /\ \E n \in {vecNormalize(vecSub(rc.b2.pos, rc.b1.pos))} :
        rc' = [pc |-> "predicted", b1 |-> rc.b1, b2 |-> rc.b2, a1 |-> rc.a1, a2 |-> rc.a2,
               targetVel |-> TargetVel(n, vecDot(rc.b1.vel, n), rc.b1.mass, rc.b2.mass),
               deflectedVel |-> DeflectedVel(rc.b1.vel, n, vecDot(rc.b1.vel, n),
                                             rc.b1.mass, rc.b2.mass)]
  /\ UNCHANGED <<balls, phase, shotVars, tick, lastUpdate, pred, realContact,
                 canvasVars, callVars>>
  /\ UNCHANGED gameVars

NextContact ==
  \/ Resolve
  \/ PredictContact

SpecContact == InitResolve /\ [][NextContact]_vars

(* ---------------- update on a pair in both array orders ---------------- *)
\* PhysicsEngine.update on the array [b1, b2] and on the array [b2, b1]
UpdateBothOrders ==
  /\ rc.pc = "in"
  /\ rc' = [pc |-> "ordered", b1 |-> rc.b1, b2 |-> rc.b2,
            ab |-> update(<<rc.b1, rc.b2>>), ba |-> update(<<rc.b2, rc.b1>>)]
  /\ UNCHANGED <<balls, phase, shotVars, tick, lastUpdate, pred, realContact,
                 canvasVars, callVars>>
  /\ UNCHANGED gameVars

NextOrder == UpdateBothOrders

SpecOrder == InitResolve /\ [][NextOrder]_vars

(* ---------------- calculateCueImpact on its own ---------------- *)
\* aim directions: unit vectors, and (0, 0), which vecNormalize returns for a
\* click on the cue ball centre (GameCanvas.handleInteraction)
ImpactDirs ==
  {Vec(1000, 0), Vec(0, 1000), Vec(-1000, 0), Vec(0, -1000), Vec(800, 600),
   Vec(-600, 800), Vec(707, -707), Vec(-891, -454), ZeroVec}

\* powers of the permitted range [2, MAX_POWER]
ImpactPowers == {2000, 9500, 15000, 26250, MAX_POWER * Scale}

\* strike offsets of the unit disk
ImpactOffsets ==
  {ZeroVec, Vec(500, 0), Vec(-500, 0), Vec(0, 500), Vec(0, -500), Vec(1000, 0),
   Vec(-1000, 0), Vec(0, 1000), Vec(0, -1000), Vec(600, -800), Vec(-600, 800),
   Vec(300, 400), Vec(-707, -707)}

InitImpact ==
  /\ balls = getInitialBalls
  /\ phase = "SELECT_POWER"
  /\ lastDirection \in ImpactDirs
  /\ shotPower \in ImpactPowers
  /\ spinOffset \in ImpactOffsets
  /\ tick = 0
  /\ lastUpdate = NoUpdate
  /\ pred = PredictIdle
  /\ realContact = NoContact
  /\ rc = [pc |-> "impactIn"]
  /\ lockDirection = lastDirection
  /\ currentMouse = Null
  /\ guideCall = NoCall
  /\ shotCall = NoCall
  /\ GameStart(1)

\* one call of calculateCueImpact(lastDirection, shotPower, spinOffset)
CueImpact ==
  /\ rc.pc = "impactIn"
  /\ rc' = [pc |-> "impactOut",
            impact |-> calculateCueImpact(lastDirection, shotPower, spinOffset)]
  /\ UNCHANGED <<balls, phase, shotVars, tick, lastUpdate, pred, realContact,
                 canvasVars, callVars>>
  /\ UNCHANGED gameVars

NextImpact == CueImpact

SpecImpact == InitImpact /\ [][NextImpact]_vars

(* ---------------- App / GameCanvas: preparing a shot ---------------- *)
\* mouse positions on the table: the cue ball centre, left of it, and up-left
MousePoints == {Vec(200000, 200000), Vec(100000, 200000), Vec(140000, 120000)}

\* points picked on the spin picker, in [-1, 1] x [-1, 1]
SpinPicks == {ZeroVec, Vec(0, 500), Vec(1000, -1000)}

\* clickY / rect.height of a click on the power bar
BarFractions == {0, 500, 950}

\* SpinPicker.handleInteraction: the point picked, pulled back onto the unit
\* circle when outside it
SpinPickerOffset(raw) ==
  IF vecMag(raw) > Scale THEN vecDiv(raw, vecMag(raw)) ELSE raw

\* GameCanvas.handleInteraction: the aim direction of a click
AimDirection(cuePos, mouse) == vecNormalize(vecSub(cuePos, mouse))

\* GameCanvas draw (lines 251-256): the call of calculateCueImpact that predict
\* makes for the guide drawn in the state given, and the last guide otherwise
DrawnGuide(ph, lock, mouse, power, offset, cuePos, old) ==
  IF ph \in {"AIMING", "SELECT_SPIN", "SELECT_POWER"} /\ (mouse # Null \/ lock # Null)
  THEN CallOf(IF lock # Null THEN lock
              ELSE IF mouse # Null THEN AimDirection(cuePos, mouse) ELSE Vec(Scale, 0),
              GuidePower(power), offset)
  ELSE old

\* the draw effect that follows every change of state
Redraw ==
  guideCall' = DrawnGuide(phase', lockDirection', currentMouse', shotPower', spinOffset',
                          balls'[CueIndex(balls')].pos, guideCall)

\* App after startNewGame(SAGU, 1)
InitAim ==
  /\ balls = getInitialBalls
  /\ phase = "AIMING"
  /\ lastDirection = Vec(Scale, 0)
  /\ shotPower = START_POWER * Scale
  /\ spinOffset = ZeroVec
  /\ tick = 0
  /\ lastUpdate = NoUpdate
  /\ pred = PredictIdle
  /\ realContact = NoContact
  /\ rc = RcOff
  /\ lockDirection = Null
  /\ currentMouse = Null
  /\ guideCall = NoCall
  /\ shotCall = NoCall
  /\ GameStart(1)

physicsVars == <<tick, lastUpdate, pred, realContact, rc>>

\* handleGlobalMouseMove with the pointer at m
MouseMoveTo(m) ==
  /\ phase # "MOVING"
  /\ currentMouse' = m
  /\ UNCHANGED <<balls, phase, shotVars, physicsVars, lockDirection, shotCall>>
  /\ Redraw
  /\ frame' = FrameAfter(frame, phase')
  /\ UNCHANGED <<appVars, shotLog, pending, effects>>

MouseMove == \E m \in MousePoints : MouseMoveTo(m)

\* GameCanvas.handleInteraction while AIMING, and onShotConfirmed
AimClick ==
  /\ phase = "AIMING"
  /\ currentMouse # Null
  /\ lockDirection' = AimDirection(balls[CueIndex(balls)].pos, currentMouse)
  /\ lastDirection' = lockDirection'
  /\ phase' = "SELECT_SPIN"
  /\ UNCHANGED <<balls, shotPower, spinOffset, physicsVars, currentMouse, shotCall>>
  /\ Redraw
  /\ frame' = FrameAfter(frame, phase')
  /\ UNCHANGED <<appVars, shotLog, pending, effects>>

\* SpinPicker.handleInteraction
SpinPick ==
  /\ phase = "SELECT_SPIN"
  /\ \E raw \in SpinPicks : spinOffset' = SpinPickerOffset(raw)
  /\ UNCHANGED <<balls, phase, lastDirection, shotPower, physicsVars, canvasVars, shotCall>>
  /\ Redraw
  /\ frame' = FrameAfter(frame, phase')
  /\ UNCHANGED <<appVars, shotLog, pending, effects>>

\* the Confirm Spin button
ConfirmSpin ==
  /\ phase = "SELECT_SPIN"
  /\ phase' = "SELECT_POWER"
  /\ UNCHANGED <<balls, shotVars, physicsVars, canvasVars, shotCall>>
  /\ Redraw
  /\ frame' = FrameAfter(frame, phase')
  /\ UNCHANGED <<appVars, shotLog, pending, effects>>

\* the Back to Aiming button
BackToAiming ==
  /\ phase = "SELECT_SPIN"
  /\ phase' = "AIMING"
  /\ UNCHANGED <<balls, shotVars, physicsVars, canvasVars, shotCall>>
  /\ Redraw
  /\ frame' = FrameAfter(frame, phase')
  /\ UNCHANGED <<appVars, shotLog, pending, effects>>

\* onContextMenu of the canvas
ContextMenu ==
  /\ \/ /\ phase = "SELECT_POWER"
        /\ phase' = "SELECT_SPIN"
        /\ UNCHANGED lockDirection
     \/ /\ phase = "SELECT_SPIN"
        /\ lockDirection' = Null
        /\ phase' = "AIMING"
  /\ UNCHANGED <<balls, shotVars, physicsVars, currentMouse, shotCall>>
  /\ Redraw
  /\ frame' = FrameAfter(frame, phase')
  /\ UNCHANGED <<appVars, shotLog, pending, effects>>

\* App handleWheel
HandleWheel ==
  /\ phase \in {"SELECT_POWER", "AIMING"}
  /\ \E delta \in {-1, 1} :
       shotPower' = Min(MAX_POWER * Scale, Max(MIN_POWER * Scale, shotPower + delta * Scale))
  /\ UNCHANGED <<balls, phase, lastDirection, spinOffset, physicsVars, canvasVars, shotCall>>
  /\ Redraw
  /\ frame' = FrameAfter(frame, phase')
  /\ UNCHANGED <<appVars, shotLog, pending, effects>>

\* onClick of the power bar
PowerBarClick ==
  /\ phase \in {"SELECT_POWER", "AIMING"}
  /\ \E f \in BarFractions :
       shotPower' = Max(MIN_POWER * Scale, FMul(Scale - f, MAX_POWER * Scale))
  /\ UNCHANGED <<balls, phase, lastDirection, spinOffset, physicsVars, canvasVars, shotCall>>
  /\ Redraw
  /\ frame' = FrameAfter(frame, phase')
  /\ UNCHANGED <<appVars, shotLog, pending, effects>>

\* GameCanvas.handleInteraction while SELECT_POWER: App.executeShot
ShootClick ==
  /\ phase = "SELECT_POWER"
  /\ currentMouse # Null
  /\ shotCall' = CallOf(lastDirection, shotPower, spinOffset)
  /\ balls' = [n \in 1..Len(balls) |->
                 IF balls[n].id = CueId THEN AssignImpact(balls[n], shotCall'.impact)
                 ELSE balls[n]]
  /\ phase' = "MOVING"
  /\ UNCHANGED <<shotVars, physicsVars, canvasVars>>
  /\ Redraw
  /\ shotLog' = NextLog(shotLog)
  /\ frame' = FrameAfter(frame, phase')
  /\ UNCHANGED <<appVars, pending, effects>>

NextAim ==
  \/ MouseMove
  \/ AimClick
  \/ SpinPick
  \/ ConfirmSpin
  \/ BackToAiming
  \/ ContextMenu
  \/ HandleWheel
  \/ PowerBarClick
  \/ ShootClick

SpecAim == InitAim /\ [][NextAim]_vars

(* ---------------- App and GameCanvas: a game, frame by frame ---------------- *)
\* shots taken in one run, and animation frames that may run while the state
\* updates or the effects of an earlier frame are still waiting
MaxShots == 2
MaxLag == 2

\* pointer positions of the shots played: one that sends the cue ball into a
\* red ball which then runs into the other red ball, and one that sends it
\* into the other cue ball
GameMousePoints == {Vec(0, 145000), Vec(100000, 200000)}

\* points picked on the spin picker: centre, and below centre
GameSpinPicks == {ZeroVec, Vec(0, 500)}

\* App and GameCanvas before Start Game is pressed (App lines 23-37)
InitGame ==
  /\ balls = <<>>
  /\ phase = "SETUP"
  /\ lastDirection = Vec(Scale, 0)
  /\ shotPower = START_POWER * Scale
  /\ spinOffset = ZeroVec
  /\ tick = 0
  /\ lastUpdate = NoUpdate
  /\ pred = PredictIdle
  /\ realContact = NoContact
  /\ rc = RcOff
  /\ lockDirection = Null
  /\ currentMouse = Null
  /\ guideCall = NoCall
  /\ shotCall = NoCall
  /\ GameStart(1)

\* nothing is waiting to be rendered and no effect is waiting to run: the
\* page is idle, and an input event is handled against the committed state
Quiet == pending = <<>> /\ ~effects

\* the Start Game button: startNewGame(gameState.mode, 1) (App lines 39-46 and
\* 112), and the mount of GameCanvas; shotCollisions, cushionCount and
\* lastDirection are not assigned
StartNewGame ==
  /\ phase = "SETUP"
  /\ Quiet
  /\ balls' = getInitialBalls
  /\ gameState' = NewGame(1)
  /\ phase' = "AIMING"
  /\ combo' = 0
  /\ shotPower' = START_POWER * Scale
  /\ spinOffset' = ZeroVec
  /\ lockDirection' = Null
  /\ currentMouse' = Null
  /\ frame' = FrameClosure("AIMING")
  /\ tick' = 0
  /\ lastUpdate' = NoUpdate
  /\ guideCall' = NoCall
  /\ shotCall' = NoCall
  /\ UNCHANGED <<lastDirection, pred, realContact, rc, shotCollisions, cushionCount,
                 shotLog, pending, effects>>

\* the Quit button of the header (App line 131), shown in every phase but
\* SETUP: GameCanvas unmounts and its scheduled callback is cancelled. A run
\* abandons a game during or after its first shot only.
Quit ==
  /\ phase # "SETUP"
  /\ Quiet
  /\ shotLog.shots = 1
  /\ phase' = "SETUP"
  /\ frame' = NoFrame
  /\ UNCHANGED <<balls, shotVars, physicsVars, canvasVars, callVars, appVars, shotLog,
                 pending, effects>>

\* the state updates that wait for the next render, in the order requested.
\* setBalls is not among them: update moves the ball objects in place, and the
\* array that onBallsUpdate hands over holds the same objects.
CollideOp(id) == [op |-> "collide", id |-> id]
CushionOp == [op |-> "cushion"]
PhaseOp(ph) == [op |-> "phase", phase |-> ph]
OutcomeOp(scored, scores, player) ==
  [op |-> "outcome", scored |-> scored, scores |-> scores, player |-> player]
ResetOp == [op |-> "reset"]

\* onCollisionOccurred for each event of a step, in order (GameCanvas lines
\* 84-101, App lines 182-185): setCushionCount for a wall event, and
\* setShotCollisions for each id of a ball event
RECURSIVE EventOps(_, _)
EventOps(events, ops) ==
  IF events = <<>> THEN ops
  ELSE IF Head(events).type = "ball"
  THEN EventOps(Tail(events), ops \o <<CollideOp(Head(events).ballIds[1]),
                                        CollideOp(Head(events).ballIds[2])>>)
  ELSE EventOps(Tail(events), Append(ops, CushionOp))

\* variant: PROCESSING is requested after every step
FrameOpsAlways(res) == EventOps(res.events, <<>>) \o <<PhaseOp("PROCESSING")>>

\* the state updates of one run of the callback while it sees MOVING
FrameOps(res) ==
  EventOps(res.events, <<>>) \o (IF res.isMoving THEN <<>> ELSE <<PhaseOp("PROCESSING")>>)

\* GameCanvas.update (lines 79-112), run by requestAnimationFrame: while the
\* phase it closed over is MOVING it calls PhysicsEngine.update, which moves the
\* balls in place, and requests the state updates
Frame ==
  /\ frame.phase = "MOVING"
  /\ tick < MaxTicks
  /\ Quiet \/ frame.lag < MaxLag
  /\ \E res \in {update(balls)} :
       /\ balls' = res.balls
       /\ lastUpdate' = [called |-> TRUE, isMoving |-> res.isMoving,
                         collisions |-> res.collisions, events |-> res.events]
       /\ pending' = pending \o FrameOps(res)
       /\ shotLog' = [shotLog EXCEPT !.pairs = LogPairs(res.events, @),
                                     !.walls = CountWalls(res.events, @)]
  /\ tick' = tick + 1
  /\ frame' = [frame EXCEPT !.lag = IF Quiet THEN 0 ELSE @ + 1]
  /\ UNCHANGED <<phase, shotVars, pred, realContact, rc, canvasVars, callVars, appVars,
                 effects>>

\* the React state that the updates act on
Committed ==
  [phase |-> phase, gameState |-> gameState, combo |-> combo,
   shotCollisions |-> shotCollisions, cushionCount |-> cushionCount,
   spinOffset |-> spinOffset]

ApplyOp(st, o) ==
  CASE o.op = "collide" -> [st EXCEPT !.shotCollisions = @ \cup {o.id}]
    [] o.op = "cushion" -> [st EXCEPT !.cushionCount = @ + 1]
    [] o.op = "phase" -> [st EXCEPT !.phase = o.phase]
    [] o.op = "outcome" ->
         IF o.scored
         THEN [st EXCEPT !.combo = @ + 1, !.gameState.scores = o.scores,
                         !.phase = "AIMING"]
         ELSE [st EXCEPT !.combo = 0, !.gameState.currentPlayer = o.player,
                         !.phase = "AIMING"]
    [] o.op = "reset" -> [st EXCEPT !.shotCollisions = {}, !.cushionCount = 0,
                                    !.spinOffset = ZeroVec]

RECURSIVE Applied(_, _)
Applied(ops, st) ==
  IF ops = <<>> THEN st ELSE Applied(Tail(ops), ApplyOp(st, Head(ops)))

\* React renders and commits: every update requested so far is applied in
\* order, and the effects of the commit are left to run
Render ==
  /\ pending # <<>>
  /\ ~effects
  /\ \E st \in {Applied(pending, Committed)} :
       /\ phase' = st.phase
       /\ gameState' = st.gameState
       /\ combo' = st.combo
       /\ shotCollisions' = st.shotCollisions
       /\ cushionCount' = st.cushionCount
       /\ spinOffset' = st.spinOffset
  /\ pending' = <<>>
  /\ effects' = TRUE
  /\ UNCHANGED <<balls, lastDirection, shotPower, physicsVars, canvasVars, callVars,
                 shotLog, frame>>

\* scored of the PROCESSING effect (App lines 85-88), mode SAGU
OpponentCue(player) == IF player = 0 THEN "yellow" ELSE "white"

RedsIn(collisions) == {id \in collisions : id \in {"red1", "red2"}}

Scored(player, collisions) ==
  Cardinality(RedsIn(collisions)) >= 2 /\ OpponentCue(player) \notin collisions

\* nextScores and nextPlayer of the PROCESSING effect (App lines 93 and 97)
NextScores(gs) == [gs.scores EXCEPT ![gs.currentPlayer + 1] = @ + 10]

NextPlayer(gs) == IF gs.playerCount = 2 THEN 1 - gs.currentPlayer ELSE 0

\* the state updates that the PROCESSING effect requests (App lines 90-100)
OutcomeOps(gs, collisions) ==
  <<OutcomeOp(Scored(gs.currentPlayer, collisions), NextScores(gs), NextPlayer(gs)),
    ResetOp>>

\* what the PROCESSING effect read and decided, for the record of the shot
Outcome(gs, collisions, cushions) ==
  [scored |-> Scored(gs.currentPlayer, collisions), player |-> gs.currentPlayer,
   collisions |-> collisions, cushions |-> cushions]

\* the effects of the last commit run: GameCanvas schedules the callback of
\* this render in place of the one before (lines 114-117), the guide is drawn,
\* and the PROCESSING effect of App (lines 83-103) runs if the committed phase
\* is PROCESSING
FlushEffects ==
  /\ effects
  /\ effects' = FALSE
  /\ frame' = [FrameClosure(phase) EXCEPT !.lag = frame.lag]
  /\ guideCall' = DrawnGuide(phase, lockDirection, currentMouse, shotPower, spinOffset,
                             balls[CueIndex(balls)].pos, guideCall)
  /\ IF phase = "PROCESSING"
     THEN /\ pending' = pending \o OutcomeOps(gameState, shotCollisions)
          /\ shotLog' = [shotLog EXCEPT !.outcomes =
                           Append(@, Outcome(gameState, shotCollisions, cushionCount))]
          /\ tick' = 0
     ELSE UNCHANGED <<pending, shotLog, tick>>
  /\ UNCHANGED <<balls, phase, shotVars, lastUpdate, pred, realContact, rc, canvasVars,
                 shotCall, appVars>>

\* the input events of a game, handled while the page is idle
GameMouseMove == Quiet /\ \E m \in GameMousePoints : MouseMoveTo(m)

GameAimClick == Quiet /\ AimClick

GameSpinPick == Quiet /\ SpinPick /\ spinOffset' \in GameSpinPicks

GameConfirmSpin == Quiet /\ ConfirmSpin

GameShootClick == Quiet /\ shotLog.shots < MaxShots /\ ShootClick

NextGame ==
  \/ StartNewGame
  \/ Quit
  \/ GameMouseMove
  \/ GameAimClick
  \/ GameSpinPick
  \/ GameConfirmSpin
  \/ GameShootClick
  \/ Frame
  \/ Render
  \/ FlushEffects

SpecGame == InitGame /\ [][NextGame]_vars

(* ---------------- the ghost ball of predict on its own ---------------- *)
\* struck balls, positions of the simulated cue ball relative to the struck
\* ball, and velocities of the simulated cue ball after the step's friction
GhostTargets == {Vec(400000, 150000), Vec(600000, 200000), Vec(400000, 250000)}

GhostOffsets ==
  {Vec(-23900, 0), Vec(-20000, 0), Vec(-6000, 0), Vec(293, 0), Vec(-14000, -14000),
   Vec(10000, -18000), Vec(0, 23000), Vec(-12000, 16000), Vec(18000, 10000), Vec(-3000, -22000)}

GhostVels ==
  {Vec(24196, 0), Vec(10000, 5000), Vec(-3000, 4000), Vec(200, 0), Vec(0, -15000),
   Vec(14000, 14000), Vec(3000, -4000), Vec(-20000, -10000)}

\* the main loop detects contact at this step and did not at the step before:
\* simPos is within two radii of the struck ball, simPos - simVel / FRICTION is not
FirstContactStep(simPos, simVel, otherPos) ==
  /\ vecDist(simPos, otherPos) < BALL_RADIUS * 2 * Scale
  /\ vecDist(vecSub(simPos, vecDiv(simVel, FRICTION)), otherPos) >= BALL_RADIUS * 2 * Scale

InitGhost ==
  /\ balls = getInitialBalls
  /\ phase = "SELECT_POWER"
  /\ lastDirection = Shots[1].dir
  /\ shotPower = Shots[1].power
  /\ spinOffset = Shots[1].off
  /\ tick = 0
  /\ lastUpdate = NoUpdate
  /\ pred = PredictIdle
  /\ realContact = NoContact
  /\ lockDirection = lastDirection
  /\ currentMouse = Null
  /\ guideCall = NoCall
  /\ shotCall = NoCall
  /\ GameStart(1)
  /\ \E t \in GhostTargets, o \in GhostOffsets, v \in GhostVels :
       /\ FirstContactStep(vecAdd(t, o), v, t)
       /\ rc = [pc |-> "ghostIn", simPos |-> vecAdd(t, o), simVel |-> v, otherPos |-> t]

\* the ghost ball as PhysicsEngine.predict computes it
GhostFirst ==
  /\ rc.pc = "ghostIn"
  /\ rc' = [pc |-> "ghostOut", simPos |-> rc.simPos, simVel |-> rc.simVel,
            otherPos |-> rc.otherPos, engine |-> 1,
            ghost |-> GhostBall(rc.otherPos, rc.simPos)]
  /\ UNCHANGED <<balls, phase, shotVars, tick, lastUpdate, pred, realContact,
                 canvasVars, callVars>>
  /\ UNCHANGED gameVars

\* the ghost ball as the second PhysicsEngine.predict computes it
GhostSecond ==
  /\ rc.pc = "ghostIn"
  /\ rc' = [pc |-> "ghostOut", simPos |-> rc.simPos, simVel |-> rc.simVel,
            otherPos |-> rc.otherPos, engine |-> 2,
            ghost |-> GhostBallSecond(rc.simPos, rc.simVel)]
  /\ UNCHANGED <<balls, phase, shotVars, tick, lastUpdate, pred, realContact,
                 canvasVars, callVars>>
  /\ UNCHANGED gameVars

NextGhost ==
  \/ GhostFirst
  \/ GhostSecond

SpecGhost == InitGhost /\ [][NextGhost]_vars

(* ---------------- one ball of the per-ball loop of update ---------------- *)
\* positions of a ball centre on one axis: beyond the cushion line (where the
\* positional correction of resolveCollision can leave a ball), next to either
\* cushion, and in the open table
CushionXs == {5000, 14000, 400000, 786000, 795000}
CushionYs == {5000, 14000, 200000, 386000, 395000}

\* velocity components, from rest up to a hard shot
CushionSpeeds == {-30000, -6000, -1000, 0, 100, 1000, 6000, 30000}

CushionSideSpins == {-3000, 0, 3000}
CushionTopSpins == {0, 4000}

InitCushion ==
  /\ balls = getInitialBalls
  /\ phase = "MOVING"
  /\ lastDirection = Shots[1].dir
  /\ shotPower = Shots[1].power
  /\ spinOffset = Shots[1].off
  /\ tick = 0
  /\ lastUpdate = NoUpdate
  /\ pred = PredictIdle
  /\ realContact = NoContact
  /\ lockDirection = lastDirection
  /\ currentMouse = Null
  /\ guideCall = NoCall
  /\ shotCall = NoCall
  /\ GameStart(1)
  /\ \E px \in CushionXs, py \in CushionYs, vx, vy \in CushionSpeeds,
        side \in CushionSideSpins, top \in CushionTopSpins :
       rc = [pc |-> "ballIn",
             ball |-> [NewBall("white", 0, 0) EXCEPT
                         !.pos = Vec(px, py), !.vel = Vec(vx, vy),
                         !.sideSpin = side, !.topSpin = top]]

\* one round of balls.forEach on rc.ball
CushionBall ==
  /\ rc.pc = "ballIn"
  /\ rc' = [pc |-> "ballOut", ball |-> rc.ball,
            out |-> IntegrateBall(NoneIntegrated, rc.ball)]
  /\ UNCHANGED <<balls, phase, shotVars, tick, lastUpdate, pred, realContact,
                 canvasVars, callVars>>
  /\ UNCHANGED gameVars

NextCushion == CushionBall

SpecCushion == InitCushion /\ [][NextCushion]_vars

(* ---------------- vecNormalize, and a shot that stacks two balls ---------------- *)
\* vectors the program normalises: centre differences and velocities, from
\* the zero vector up to the length of the table
NormComponents == {-400000, -24000, -293, 0, 150, 10442, 35000, 788000}

NormVecs == {Vec(a, b) : a, b \in NormComponents}

\* the hard draw shot, which leaves the cue ball and the yellow ball on the
\* same point of the far cushion
StackingShot == 8

InitNormalize ==
  /\ balls = getInitialBalls
  /\ phase = "SELECT_POWER"
  /\ lastDirection = Shots[StackingShot].dir
  /\ shotPower = Shots[StackingShot].power
  /\ spinOffset = Shots[StackingShot].off
  /\ tick = 0
  /\ lastUpdate = NoUpdate
  /\ pred = PredictIdle
  /\ realContact = NoContact
  /\ lockDirection = lastDirection
  /\ currentMouse = Null
  /\ guideCall = NoCall
  /\ shotCall = NoCall
  /\ GameStart(1)
  /\ \E v \in NormVecs : rc = [pc |-> "normIn", v |-> v]

\* one call of vecNormalize(v)
Normalize ==
  /\ rc.pc = "normIn"
  /\ rc' = [pc |-> "normOut", v |-> rc.v, out |-> vecNormalize(rc.v)]
  /\ UNCHANGED <<balls, phase, shotVars, tick, lastUpdate, pred, realContact,
                 canvasVars, callVars>>
  /\ UNCHANGED gameVars

NextNormalize ==
  \/ Normalize
  \/ Next

SpecNormalize == InitNormalize /\ [][NextNormalize]_vars

(* ======================= the claims ======================= *)
\* rounding allowances of the fixed-point arithmetic
PosTol == 5
EnergyTol == 100

Near(pos) ==
  \E n \in OtherIndices(balls) : vecDist(pos, balls[n].pos) < BALL_RADIUS * 2 * Scale

AtRest(b) == b.vel = ZeroVec /\ b.sideSpin = 0 /\ b.topSpin = 0

\* twice the kinetic energy of a ball
Energy2(b) == b.mass * (FMul(b.vel.x, b.vel.x) + FMul(b.vel.y, b.vel.y))

PredictHasContact == pred.target # ""

AllResultFields == {"path", "ghostBall", "targetPath", "thickness", "angle"}

\* C1 (as claimed): after every call of update, every two distinct balls are at
\* least the sum of their radii apart.
C1_NonOverlap ==
  lastUpdate.called =>
    \A i, j \in 1..Len(balls) :
      i < j => vecDist(balls[i].pos, balls[j].pos) + PosTol
                 >= balls[i].radius + balls[j].radius

\* C2 (as claimed): after every call of update, every ball slower than
\* MIN_VELOCITY has velocity (0,0), sideSpin 0 and topSpin 0.
C2_RestState ==
  lastUpdate.called =>
    \A n \in 1..Len(balls) : vecMag(balls[n].vel) < MIN_VELOCITY => AtRest(balls[n])

\* C3 (as claimed): after every call of update, every ball lies within the
\* cushions: radius <= pos.x <= TABLE_WIDTH - radius, and likewise for y.
C3_BoundaryClamp ==
  lastUpdate.called =>
    \A n \in 1..Len(balls) :
      LET b == balls[n]
      IN /\ b.radius <= b.pos.x + PosTol /\ b.pos.x <= TableW - b.radius + PosTol
         /\ b.radius <= b.pos.y + PosTol /\ b.pos.y <= TableH - b.radius + PosTol

\* the two balls handed to resolveCollision approach each other
Approaching == PairSpeed(rc.b1, rc.b2) > 0

EnergyNotIncreased ==
  Energy2(rc.a1) + Energy2(rc.a2) <= Energy2(rc.b1) + Energy2(rc.b2) + EnergyTol

\* C4 (as claimed): resolveCollision never increases the kinetic energy of an
\* approaching pair, whatever topSpin calculateCueImpact gave the striking ball.
C4_EnergyNonIncreaseAnySpin ==
  (rc.pc = "out" /\ Approaching) => EnergyNotIncreased

\* C4 (amended): resolveCollision does not increase the kinetic energy of an
\* approaching pair whose striking ball has |topSpin| <= 0.05, the case in which
\* the follow/draw coupling is not applied.
C4_EnergyNonIncreaseNoSpin ==
  (rc.pc = "out" /\ Approaching /\ Abs(rc.b1.topSpin) <= SPIN_THRESHOLD)
    => EnergyNotIncreased

\* C4 witness: an approaching pair without top spin has been resolved and has
\* lost energy.
C4_Witness ==
  /\ rc.pc = "out" /\ Approaching /\ Abs(rc.b1.topSpin) <= SPIN_THRESHOLD
  /\ rc.b1.mass # rc.b2.mass
  /\ Energy2(rc.a1) + Energy2(rc.a2) + EnergyTol < Energy2(rc.b1) + Energy2(rc.b2)

\* C5 (as claimed): the aim guide and the real loop reach first ball contact
\* with the same ball, at the same step, with the same ghost position and the
\* same cut thickness.
C5_PredictionParity ==
  /\ (pred.pc = "done" /\ realContact.found) =>
       /\ PredictHasContact
       /\ pred.target = realContact.target
       /\ pred.contactStep = realContact.step
       /\ Abs(pred.ghost.x - realContact.ghost.x) <= PosTol
       /\ Abs(pred.ghost.y - realContact.ghost.y) <= PosTol
       /\ Abs(pred.thickness - realContact.thickness) <= PosTol
  /\ (pred.pc = "done" /\ PredictHasContact /\ phase = "PROCESSING") => realContact.found

\* C7: no step of predict changes a ball: pos, vel, spins, trace, radius and
\* mass of the cue ball and of every other ball are as before the call.
C7_PredictReadOnly == [][pred' # pred => balls' = balls]_vars

\* C7 witness: a call of predict has returned through the contact exit.
C7_Witness == pred.pc = "done" /\ PredictHasContact /\ pred.deflectIters > 0

\* C8: predict runs its main loop at most 400 times, its target-path loop at
\* most 60 times and its deflected-path loop at most 150 times, and a call that
\* reaches the 400-step cap returns the path collected so far.
C8_PredictBudget ==
  /\ pred.mainIters <= PREDICT_STEPS
  /\ pred.targetIters <= TARGET_STEPS
  /\ pred.deflectIters <= DEFLECT_STEPS
  /\ (pred.pc = "main" => pred.i < PREDICT_STEPS)
  /\ (pred.pc = "target" => pred.j < TARGET_STEPS)
  /\ (pred.pc = "deflect" => pred.k < DEFLECT_STEPS)
  /\ (pred.mainIters = PREDICT_STEPS /\ ~PredictHasContact) =>
       /\ pred.pc = "done"
       /\ DOMAIN pred.result = {"path"}
       /\ pred.result.path = pred.path
       /\ Len(pred.path) > 1

\* C8 witness: a call has returned at the 400-step cap, still above the rest
\* speed and without contact.
C8_Witness ==
  /\ pred.pc = "done" /\ ~PredictHasContact /\ pred.mainIters = PREDICT_STEPS
  /\ vecMag(pred.simVel) >= MIN_VELOCITY

\* C9: while the simulated cue ball has not come within two radii of another
\* ball the main loop goes on or returns the path alone; once it has, the
\* result holds path, ghostBall, targetPath, thickness and angle together.
C9_PartialResult ==
  phase = "SELECT_POWER" =>
    /\ (pred.pc = "main" /\ pred.mainIters > 0) => ~Near(pred.simPos)
    /\ (pred.pc \in {"target", "deflect"}) => Near(pred.simPos)
    /\ (pred.pc = "done" /\ Near(pred.simPos)) => DOMAIN pred.result = AllResultFields
    /\ (pred.pc = "done" /\ ~Near(pred.simPos)) => DOMAIN pred.result = {"path"}

\* C9 witness: a call has returned all five fields after a contact.
C9_Witness ==
  /\ phase = "SELECT_POWER" /\ pred.pc = "done" /\ Near(pred.simPos)
  /\ DOMAIN pred.result = AllResultFields

\* C10: when update returns isMoving = false every ball is at rest and the call
\* emitted no event; when it returns isMoving = true some ball has a non-zero
\* velocity.
C10_IsMovingFlag ==
  lastUpdate.called =>
    /\ ~lastUpdate.isMoving =>
         /\ \A n \in 1..Len(balls) : AtRest(balls[n])
         /\ lastUpdate.events = <<>>
    /\ lastUpdate.isMoving => \E n \in 1..Len(balls) : balls[n].vel # ZeroVec

\* C10 witness: update has returned isMoving = false at the end of a rally.
C10_Witness == lastUpdate.called /\ ~lastUpdate.isMoving /\ tick > 1

\* rounding allowances of the fixed-point spins and speeds
SpinTol == 2
VelTol == 60

IsUnit(v) == Abs(vecMag(v) - Scale) <= 1

\* offset.x * power * transferRatio and -offset.y * power * transferRatio are
\* the spins returned
SpinTransfer ==
  /\ Abs(rc.impact.sideSpin - FMul(spinOffset.x, FMul(shotPower, SPIN_TRANSFER_RATIO)))
       <= SpinTol
  /\ Abs(rc.impact.topSpin + FMul(spinOffset.y, FMul(shotPower, SPIN_TRANSFER_RATIO)))
       <= SpinTol
  /\ spinOffset.y < 0 => rc.impact.topSpin > 0
  /\ spinOffset.y > 0 => rc.impact.topSpin < 0

\* a centre hit gives no spin and velocity = direction * power
CentreHit ==
  spinOffset = ZeroVec =>
    /\ rc.impact.sideSpin = 0 /\ rc.impact.topSpin = 0
    /\ Abs(rc.impact.velocity.x - FMul(lastDirection.x, shotPower)) <= SpinTol
    /\ Abs(rc.impact.velocity.y - FMul(lastDirection.y, shotPower)) <= SpinTol

C12_LaunchSpeed ==
  (rc.pc = "impactOut" /\ IsUnit(lastDirection)) =>
    /\ Abs(vecMag(rc.impact.velocity)
             - FMul(shotPower, Scale - FMul(vecMag(spinOffset), EFFICIENCY_LOSS))) <= VelTol
    /\ vecMag(rc.impact.velocity) <= shotPower + VelTol
    /\ vecMag(rc.impact.velocity) + VelTol >= FMul(shotPower, Scale - EFFICIENCY_LOSS)

\* C12 witness: an off-centre hit with squirt at full power has been computed
\* and is slower than the power.
C12_Witness ==
  /\ rc.pc = "impactOut" /\ IsUnit(lastDirection) /\ shotPower = MAX_POWER * Scale
  /\ spinOffset = Vec(600, -800)
  /\ vecMag(rc.impact.velocity) + VelTol < shotPower

ShotFired == phase = "MOVING" /\ shotCall.made /\ guideCall.made

\* C13 (as claimed): a shot executed from SELECT_POWER gives the cue ball the
\* output of calculateCueImpact for the direction, the power and the spin
\* offset that predict used for the aim guide on display, for every power the
\* player can select.
C13_SharedCueImpact ==
  ShotFired =>
    /\ shotCall.direction = guideCall.direction
    /\ shotCall.power = guideCall.power
    /\ shotCall.spinOffset = guideCall.spinOffset
    /\ balls[CueIndex(balls)].vel = guideCall.impact.velocity
    /\ balls[CueIndex(balls)].sideSpin = guideCall.impact.sideSpin
    /\ balls[CueIndex(balls)].topSpin = guideCall.impact.topSpin

CallInContract(call) ==
  call.made =>
    /\ IsUnit(call.direction)
    /\ MIN_POWER * Scale <= call.power /\ call.power <= MAX_POWER * Scale
    /\ vecMag(call.spinOffset) <= Scale + 1

\* C14 (as claimed): every call of calculateCueImpact, from executeShot and
\* from predict, receives a unit direction, a power in [2, MAX_POWER] and a
\* spin offset of magnitude at most 1.
C14_CueImpactPreconditions == CallInContract(guideCall) /\ CallInContract(shotCall)

\* the line of centres of the pair handed to resolveCollision
LineOfCentres == vecNormalize(vecSub(rc.b2.pos, rc.b1.pos))

VecNear(v, w, tol) == Abs(v.x - w.x) <= tol /\ Abs(v.y - w.y) <= tol

\* b1 without top spin runs along the line of centres into b2, which is at
\* rest and has b1's mass
StunHit ==
  /\ rc.pc = "out"
  /\ rc.b1.topSpin = 0
  /\ rc.b2.vel = ZeroVec
  /\ rc.b1.mass = rc.b2.mass
  /\ VecNear(vecNormalize(rc.b1.vel), LineOfCentres, 1)

\* C15: after a head-on hit of speed s without top spin on an equal-mass ball
\* at rest, the struck ball has s * BALL_BOUNCE along the line of centres and
\* the striking ball keeps s * (1 - BALL_BOUNCE) along it, with no tangential
\* component.
C15_StunTransfer ==
  StunHit =>
    /\ VecNear(rc.a2.vel, vecMul(LineOfCentres, FMul(vecMag(rc.b1.vel), BALL_BOUNCE)), VelTol)
    /\ VecNear(rc.a1.vel,
               vecMul(LineOfCentres, FMul(vecMag(rc.b1.vel), Scale - BALL_BOUNCE)), VelTol)
    /\ Abs(FMul(rc.a1.vel.x, LineOfCentres.y) - FMul(rc.a1.vel.y, LineOfCentres.x)) <= VelTol

\* C15 witness: a stun hit at speed 35 between two balls of mass 2 along a
\* diagonal has been resolved.
C15_Witness ==
  /\ StunHit /\ rc.b1.mass = 2 /\ vecMag(rc.b1.vel) > 34000
  /\ rc.b1.vel.x < 0 /\ rc.a2.vel # ZeroVec

AxisDirs == {Vec(Scale, 0), Vec(-Scale, 0), Vec(0, Scale), Vec(0, -Scale)}

\* the cross and dot products of whole-number multiples of the axis directions
Cross(v, d) == (v.x * d.y - v.y * d.x) \div Scale
Along(v, d) == (v.x * d.x + v.y * d.y) \div Scale

\* ball n lies on the aim line ahead of the cue ball, and no other ball comes
\* within two radii of the line before it
AimedFullAt(n) ==
  LET cue == balls[CueIndex(balls)].pos
      d == lockDirection
      v == vecSub(balls[n].pos, cue)
  IN /\ d \in AxisDirs
     /\ Cross(v, d) = 0 /\ Along(v, d) > 0
     /\ \A m \in OtherIndices(balls) \ {n} :
          LET w == vecSub(balls[m].pos, cue)
          IN Abs(Cross(w, d)) >= 2 * Radius \/ Along(w, d) < 0 \/ Along(w, d) > Along(v, d)

\* the points of a path advance strictly along d and stay on the line
RECURSIVE Advances(_, _, _)
Advances(path, k, d) ==
  k >= Len(path) \/
    /\ Along(vecSub(path[k + 1], path[k]), d) > 0
    /\ Cross(vecSub(path[k + 1], path[k]), d) = 0
    /\ Advances(path, k + 1, d)

\* C16 (as claimed): for a zero-spin shot aimed along a table axis at the
\* centre of a ball with nothing in between, predict returns ghostBall = target
\* centre minus 2 * BALL_RADIUS along the aim, thickness 1, angle 0, and a
\* targetPath that starts at the target centre and then advances strictly along
\* the aim.
C16_StraightFullBall ==
  \A n \in OtherIndices(balls) :
    (phase = "SELECT_POWER" /\ pred.pc = "done" /\ spinOffset = ZeroVec /\ AimedFullAt(n)) =>
      /\ DOMAIN pred.result = AllResultFields
      /\ VecNear(pred.result.ghostBall,
                 vecSub(balls[n].pos, vecMul(lockDirection, 2 * Radius)), PosTol)
      /\ pred.result.thickness = Scale
      /\ pred.result.angle = 0
      /\ pred.result.targetPath[1] = balls[n].pos
      /\ Len(pred.result.targetPath) > 1
      /\ Advances(pred.result.targetPath, 1, lockDirection)

\* the ghost lies two radii from the struck ball, on the ray from its centre
\* towards the simulated cue ball
GhostOnRay ==
  /\ Abs(vecDist(rc.ghost, rc.otherPos) - BALL_RADIUS * 2 * Scale) <= PosTol
  /\ VecNear(vecNormalize(vecSub(rc.ghost, rc.otherPos)),
             vecNormalize(vecSub(rc.simPos, rc.otherPos)), SpinTol)

\* C17 (as claimed): a ghostBall returned by predict, of either PhysicsEngine,
\* for a struck ball whose centre differs from the simulated cue position lies
\* exactly 2 * BALL_RADIUS from the struck ball's centre, on the ray from that
\* centre towards the simulated cue ball at the contact step.
C17_GhostPlacement ==
  (rc.pc = "ghostOut" /\ rc.otherPos # rc.simPos) => GhostOnRay

\* w is v scaled to unit length, up to rounding: of length 1, with v's signs,
\* and with components in v's proportion
UnitOf(w, v) ==
  /\ Abs(vecMag(w) - Scale) <= SpinTol
  /\ (v.x > 0 => w.x >= 0) /\ (v.x < 0 => w.x <= 0) /\ (v.x = 0 => w.x = 0)
  /\ (v.y > 0 => w.y >= 0) /\ (v.y < 0 => w.y <= 0) /\ (v.y = 0 => w.y = 0)
  /\ Abs(FMul(w.x, RoundDiv(v.y, Max(1, vecMag(v) \div Scale)))
           - FMul(w.y, RoundDiv(v.x, Max(1, vecMag(v) \div Scale)))) <= PosTol

Coincide(i, j) == i < j /\ balls[i].pos = balls[j].pos

\* C18: vecNormalize returns (0,0) for the zero vector and a vector of length
\* 1 in the same direction for any other; and a pair of balls with coincident
\* centres gets no impulse and no positional correction from update: the call
\* records no collision and emits no ball event for it.
C18_NormalizeTotal ==
  /\ rc.pc = "normOut" =>
       IF rc.v = ZeroVec THEN rc.out = ZeroVec ELSE UnitOf(rc.out, rc.v)
  /\ lastUpdate.called =>
       \A i, j \in 1..Len(balls) :
         Coincide(i, j) =>
           /\ vecNormalize(vecSub(balls[j].pos, balls[i].pos)) = ZeroVec
           /\ <<balls[i].id, balls[j].id>> \notin lastUpdate.collisions
           /\ \A e \in 1..Len(lastUpdate.events) :
                lastUpdate.events[e].ballIds # <<balls[i].id, balls[j].id>>

\* C18 witness: the zero vector has been normalised, and update has returned
\* with two balls of different velocities on the same point.
C18_Witness ==
  /\ rc.pc = "normOut" /\ rc.v = ZeroVec
  /\ lastUpdate.called
  /\ \E i, j \in 1..Len(balls) : Coincide(i, j) /\ balls[i].vel # balls[j].vel

\* the velocity resolveCollision gave b1 beyond the impulse: a1.vel - v1_post
ExtraVelocity ==
  vecSub(rc.a1.vel,
         vecSub(rc.b1.vel,
                vecMul(LineOfCentres,
                       Impulse(PairSpeed(rc.b1, rc.b2), rc.b1.mass, rc.b2.mass) * rc.b2.mass)))

\* C19 (as claimed): when b1 has |topSpin| > 0.05, the extra velocity
\* resolveCollision adds to b1 points towards the struck ball for positive
\* topSpin (follow) and away from it for negative topSpin (draw).
C19_FollowDrawDirection ==
  (rc.pc = "out" /\ Approaching /\ Abs(rc.b1.topSpin) > SPIN_THRESHOLD) =>
    /\ rc.b1.topSpin > 0 => vecDot(ExtraVelocity, LineOfCentres) >= 0
    /\ rc.b1.topSpin < 0 => vecDot(ExtraVelocity, LineOfCentres) <= 0

\* the pairs (i, j), i < j <= n, in the order of the two nested loops
RECURSIVE PairsFrom(_, _, _)
PairsFrom(i, j, n) ==
  IF i >= n THEN <<>>
  ELSE IF j > n THEN PairsFrom(i + 1, i + 2, n)
  ELSE <<(<<i, j>>)>> \o PairsFrom(i, j + 1, n)

\* the centres are closer than the sum of the radii and the relative velocity
\* along the line of centres is strictly positive
Colliding(b1, b2) ==
  /\ vecMag(vecSub(b1.pos, b2.pos)) < b1.radius + b2.radius
  /\ vecDot(vecSub(b1.vel, b2.vel), vecNormalize(vecSub(b2.pos, b1.pos))) > 0

Resolved(bs, i, j) ==
  [bs EXCEPT ![i] = resolveCollision(bs[i], bs[j])[1],
             ![j] = resolveCollision(bs[i], bs[j])[2]]

\* the id pairs of the pairs that are colliding when the scan reaches them,
\* each pair examined on the balls as the pairs before it left them
RECURSIVE CollidingPairs(_, _, _)
CollidingPairs(bs, pairs, found) ==
  IF pairs = <<>> THEN found
  ELSE IF Colliding(bs[Head(pairs)[1]], bs[Head(pairs)[2]])
  THEN CollidingPairs(Resolved(bs, Head(pairs)[1], Head(pairs)[2]), Tail(pairs),
                      Append(found, <<bs[Head(pairs)[1]].id, bs[Head(pairs)[2]].id>>))
  ELSE CollidingPairs(bs, Tail(pairs), found)

\* the balls after the scan: every colliding pair resolved, no other ball changed
RECURSIVE ResolvedPairs(_, _)
ResolvedPairs(bs, pairs) ==
  IF pairs = <<>> THEN bs
  ELSE IF Colliding(bs[Head(pairs)[1]], bs[Head(pairs)[2]])
  THEN ResolvedPairs(Resolved(bs, Head(pairs)[1], Head(pairs)[2]), Tail(pairs))
  ELSE ResolvedPairs(bs, Tail(pairs))

CollidingBalls(before) ==
  ResolvedPairs(IntegrateFrom(before, 1, NoneIntegrated).balls, PairsFrom(1, 2, Len(before)))

\* the ballIds of the ball events of a list of events, in order
RECURSIVE BallEventIds(_)
BallEventIds(events) ==
  IF events = <<>> THEN <<>>
  ELSE IF Head(events).type = "ball"
  THEN <<Head(events).ballIds>> \o BallEventIds(Tail(events))
  ELSE BallEventIds(Tail(events))

SeqRange(q) == {q[n] : n \in 1..Len(q)}

EventsMatchScan(before, events, collisions) ==
  /\ BallEventIds(events)
       = CollidingPairs(IntegrateFrom(before, 1, NoneIntegrated).balls,
                        PairsFrom(1, 2, Len(before)), <<>>)
  /\ collisions = SeqRange(BallEventIds(events))
  /\ Cardinality(collisions) = Len(BallEventIds(events))

\* C20: in every call of update, a pair produces a ball event with both ids
\* and an entry of collisions, and is resolved, exactly when the scan finds its
\* centres closer than the sum of the radii and its relative velocity along the
\* line of centres strictly positive; such a pair yields one event, any other
\* pair none.
C20_CollisionEvents ==
  [][(phase = "MOVING" /\ tick' = tick + 1)
       => /\ EventsMatchScan(balls, lastUpdate'.events, lastUpdate'.collisions)
          /\ balls' = CollidingBalls(balls)]_vars

\* C20 witness: update has returned a ball event that carries the ids of two
\* balls i < j, with the same pair as the entry of collisions.
C20_Witness ==
  /\ lastUpdate.called
  /\ Len(BallEventIds(lastUpdate.events)) = 1
  /\ \E i, j \in 1..Len(balls) :
       /\ i < j
       /\ BallEventIds(lastUpdate.events)[1] = <<balls[i].id, balls[j].id>>
       /\ lastUpdate.collisions = {<<balls[i].id, balls[j].id>>}

\* the ball of the call under examination after its move and friction, before
\* the cushions are looked at
Landed == Advance(rc.ball, SpinPushed(rc.ball)).ball

CrossedLeft == Landed.pos.x - Landed.radius < 0
CrossedRight == Landed.pos.x + Landed.radius > TableW
CrossedTop == Landed.pos.y - Landed.radius < 0
CrossedBottom == Landed.pos.y + Landed.radius > TableH
CrossedX == CrossedLeft \/ CrossedRight
CrossedY == CrossedTop \/ CrossedBottom

AxesCrossed == (IF CrossedX THEN 1 ELSE 0) + (IF CrossedY THEN 1 ELSE 0)

\* the speed at which the ball met the cushion of an axis, 0 for an axis not crossed
ImpactSpeedX == IF CrossedX THEN Abs(Landed.vel.x) ELSE 0
ImpactSpeedY == IF CrossedY THEN Abs(Landed.vel.y) ELSE 0

MovedBall == rc.pc = "ballOut" /\ IsMovingBall(rc.ball)

\* C21: a moving ball emits one wall event for each axis on which its edge
\* crossed a boundary (two for a corner), none if it crossed no boundary, each
\* with intensity the larger of the two axis impact speeds divided by 8; a ball
\* at rest emits none.
C21_WallEvents ==
  rc.pc = "ballOut" =>
    IF IsMovingBall(rc.ball)
    THEN /\ Len(rc.out.events) = AxesCrossed
         /\ \A n \in 1..Len(rc.out.events) :
              /\ rc.out.events[n].type = "wall"
              /\ Abs(rc.out.events[n].intensity
                      - RoundDiv(Max(ImpactSpeedX, ImpactSpeedY), INTENSITY_DIV)) <= SpinTol
    ELSE rc.out.events = <<>>

\* the ball of the call under examination as the cushion handling left it
Bounced == rc.out.balls[1]

\* the deflection that the side spin gives the other axis at a bounce
SideSpinKick(bounced) ==
  Abs(FMul(FMul(Landed.sideSpin, Abs(bounced)), SIDE_SPIN_CUSHION_FACTOR))

BouncedX ==
  /\ CrossedLeft => Bounced.pos.x = Bounced.radius /\ Bounced.vel.x >= 0
  /\ CrossedRight => Bounced.pos.x = TableW - Bounced.radius /\ Bounced.vel.x <= 0
  /\ Abs(Abs(Bounced.vel.x) - FMul(Abs(Landed.vel.x), WALL_BOUNCE)) <= SpinTol
  /\ ~CrossedY =>
       Abs(Abs(Bounced.vel.y - Landed.vel.y) - SideSpinKick(Bounced.vel.x)) <= SpinTol

BouncedY ==
  /\ CrossedTop => Bounced.pos.y = Bounced.radius /\ Bounced.vel.y >= 0
  /\ CrossedBottom => Bounced.pos.y = TableH - Bounced.radius /\ Bounced.vel.y <= 0
  /\ Abs(Abs(Bounced.vel.y) - FMul(Abs(Landed.vel.y), WALL_BOUNCE)) <= SpinTol
  /\ ~CrossedX =>
       Abs(Abs(Bounced.vel.x - Landed.vel.x) - SideSpinKick(Bounced.vel.y)) <= SpinTol

\* C22: on each axis on which a moving ball's edge crossed a boundary, after the
\* cushion handling the ball is exactly its radius away from that boundary, the
\* velocity component of the axis has WALL_BOUNCE times the size it had after
\* friction and points back into the table, and the component of the other axis
\* is changed by sideSpin * |bounced component| * SIDE_SPIN_CUSHION_FACTOR; also
\* at a corner and for a ball that starts beyond the boundary moving inward.
C22_CushionBounce ==
  MovedBall => (CrossedX => BouncedX) /\ (CrossedY => BouncedY)

\* predict and resolveCollision have both handled a pair whose struck ball was
\* at rest and which the striking ball approached
ContactOnResting ==
  /\ rc.pc = "predicted"
  /\ rc.b2.vel = ZeroVec
  /\ PairSpeed(rc.b1, rc.b2) > 0

\* v1_post of resolveCollision: b1's velocity without the follow/draw coupling
SpinFreeVel1 ==
  vecSub(rc.b1.vel,
         vecMul(LineOfCentres,
                Impulse(PairSpeed(rc.b1, rc.b2), rc.b1.mass, rc.b2.mass) * rc.b2.mass))

PredictedAsResolved ==
  /\ VecNear(rc.targetVel, rc.a2.vel, SpinTol)
  /\ VecNear(rc.deflectedVel, SpinFreeVel1, SpinTol)

\* C23: for every pair of masses and every contact with positive approach speed
\* on a struck ball at rest, the targetVel and the first deflectedVel of predict
\* equal the v2_post and the spin-free v1_post of resolveCollision.
C23_PredictedImpulse == ContactOnResting => PredictedAsResolved

\* the two balls collided in the update of the array [b1, b2]
CollidedInOrder == rc.pc = "ordered" /\ rc.ab.collisions # {}

SameMotion(a, b) ==
  /\ a.id = b.id
  /\ VecNear(a.pos, b.pos, SpinTol)
  /\ VecNear(a.vel, b.vel, SpinTol)

\* C24: after update, each of two colliding balls has the same position and
\* velocity whether it came first or second in the balls array, also when only
\* one of them carries topSpin.
C24_OrderIndependence ==
  CollidedInOrder =>
    /\ SameMotion(rc.ab.balls[1], rc.ba.balls[2])
    /\ SameMotion(rc.ab.balls[2], rc.ba.balls[1])

\* the last n entries of q, in order
KeepLast(q, n) == SubSeq(q, Max(1, Len(q) - n + 1), Len(q))

\* the position the ball is moved to by a step, before cushions and collisions
Integrated(ball) == vecAdd(ball.pos, SpinPushed(ball))

TraceStep(before, after) ==
  IF vecMag(before.vel) > MIN_VELOCITY
  THEN after.trace = KeepLast(Append(before.trace, Integrated(before)), TRACE_CAP)
  ELSE after.trace = before.trace

\* C25: every trace has at most 20 entries; a call of update appends the
\* integrated position to the trace of each moving ball, dropping the oldest
\* entry of a full trace, and leaves the trace of a ball at rest as it was; no
\* other step changes a trace.
C25_BoundedTrace ==
  [][/\ \A n \in 1..Len(balls) : Len(balls[n].trace) <= TRACE_CAP
     /\ \A n \in 1..Len(balls') : Len(balls'[n].trace) <= TRACE_CAP
     /\ IF phase = "MOVING" /\ tick' = tick + 1
        THEN \A n \in 1..Len(balls) : TraceStep(balls[n], balls'[n])
        ELSE \A n \in 1..Len(balls) : balls'[n].trace = balls[n].trace]_vars

\* C25 witness: the cue ball is still moving after more than 20 steps, so its
\* full trace has dropped entries, and a ball that never moved has an empty trace.
C25_Witness ==
  /\ tick > TRACE_CAP
  /\ Len(balls[1].trace) = TRACE_CAP
  /\ balls[1].vel # ZeroVec
  /\ \E n \in 1..Len(balls) : balls[n].trace = <<>>

Momentum(b1, b2) == vecAdd(vecMul(b1.vel, b1.mass), vecMul(b2.vel, b2.mass))

\* the component of v across the line of centres
Tangential(v) == FMul(v.x, LineOfCentres.y) - FMul(v.y, LineOfCentres.x)

\* resolveCollision has handled an approaching pair whose striking ball has
\* |topSpin| <= 0.05
PlainHit ==
  /\ rc.pc = "out"
  /\ Approaching
  /\ Abs(rc.b1.topSpin) <= SPIN_THRESHOLD

BallIds == {"white", "yellow", "red1", "red2"}

\* the cue ball of the player whose shot is evaluated
CueOf(player) == IF player = 0 THEN "white" ELSE "yellow"

\* the balls that took part in a collision with the ball cue, by the ball
\* events that update returned during the shot
TouchedBy(cue, pairs) == {id \in BallIds : <<cue, id>> \in pairs \/ <<id, cue>> \in pairs}

\* the shot that outcome o was computed for earns its points
EarnedPoints(o, pairs) ==
  /\ {"red1", "red2"} \subseteq TouchedBy(CueOf(o.player), pairs)
  /\ OpponentCue(o.player) \notin TouchedBy(CueOf(o.player), pairs)

\* C26: in SAGU mode a shot is scored only if, during that shot, the shooter's
\* cue ball collided with both red balls and did not collide with the
\* opponent's cue ball
C26_SaguScoring ==
  \A n \in 1..Len(shotLog.outcomes) :
    shotLog.outcomes[n].scored => EarnedPoints(shotLog.outcomes[n], shotLog.pairs)

\* the phases in which the player can aim
AimPhases == {"AIMING", "SELECT_SPIN", "SELECT_POWER"}

BallsAtRest == \A n \in 1..Len(balls) : AtRest(balls[n])

\* a step of startNewGame, of executeShot and of the frame callback
StartStep == phase = "SETUP" /\ phase' = "AIMING" /\ balls' = getInitialBalls

ShotStep ==
  /\ phase = "SELECT_POWER"
  /\ phase' = "MOVING"
  /\ \A n \in 1..Len(balls) : balls[n].id # CueId => balls'[n] = balls[n]

UpdateStep == tick' = tick + 1

IdsOf(pairs) == {id \in BallIds : \E p \in pairs : id \in {p[1], p[2]}}

\* outcome o was computed from the events of the shot recorded in log
FromWholeShot(o, log) == o.collisions = IdsOf(log.pairs) /\ o.cushions = log.walls

\* C30: between one executeShot and the next the PROCESSING outcome is applied
\* exactly once, and it is computed from all the collisions and cushion hits
\* of that shot and from no others
C30_EvaluatedOnce ==
  /\ [](/\ Len(shotLog.outcomes) <= 1
        /\ \A n \in 1..Len(shotLog.outcomes) :
             FromWholeShot(shotLog.outcomes[n], shotLog))
  /\ [][ShotStep /\ shotLog.shots >= 1 => Len(shotLog.outcomes) = 1]_vars

====
